---- MODULE Spec2Model ----
(***************************************************************************)
(* A model of typeorm-seeding: the seeding context (blueprint cache,       *)
(* sequence counters, temp ids, labelled references, creation log,         *)
(* transaction-scoped child contexts) and the seven-phase schema resolver  *)
(* with its asynchronous resolution pipelines.                             *)
(*                                                                         *)
(* JavaScript runs one synchronous segment at a time.  The variable        *)
(* `stack` is the call stack of resolve() invocations that are running     *)
(* synchronously: while it is non-empty only its top frame steps.  A frame *)
(* that reaches an `await` leaves the stack; the event loop (the actions   *)
(* that need an empty stack) resumes suspended frames, completes saves and *)
(* deletes, and runs the caller's next top-level statement.                *)
(***************************************************************************)
EXTENDS Integers, Sequences, FiniteSets, TLC

\* ------------------------------------------------------------------ bounds
MaxCtx == 3
MaxCalls == 2
MaxDirect == 2
WithPetsCount == 2
MaxFrames == 10
\* References to blueprints the caller keeps at once.
MaxHeld == 3

\* ------------------------------------------------------------------ values
\* A JavaScript value held by a schema key, an entity property or a label.
Absent == [kind |-> "absent"]
Null == [kind |-> "null"]
Plain(v) == [kind |-> "plain", v |-> v]
Num(n) == [kind |-> "num", n |-> n]
Ent(e) == [kind |-> "entity", id |-> e]
List(s) == [kind |-> "list", ids |-> s]
Obj(props) == [kind |-> "object", props |-> props]
SeqVal(tag, n) == [kind |-> "seqval", tag |-> tag, n |-> n]

\* `x != null` / `x == null` of JavaScript: neither null nor undefined.
NonNull(v) == v.kind \notin {"absent", "null"}

\* The descriptor constructors.
sequence(tag) == [kind |-> "sequence", tag |-> tag]
ref(label) == [kind |-> "ref", label |-> label]
belongsTo(factoryRef, overridesOrEntity, variant) ==
    [kind |-> "belongsTo", factoryRef |-> factoryRef,
     overridesOrEntity |-> overridesOrEntity, variants |-> variant]
hasMany(factoryRef, count, overrides, variant) ==
    [kind |-> "hasMany", factoryRef |-> factoryRef, count |-> count,
     overrides |-> overrides, variants |-> variant]
hasOne(factoryRef, overrides, variant) ==
    [kind |-> "hasOne", factoryRef |-> factoryRef,
     overrides |-> overrides, variants |-> variant]

\* The DESCRIPTOR_TAG test: only the five constructors set the tag.
isDescriptor(v) == v.kind \in {"sequence", "ref", "belongsTo", "hasMany", "hasOne"}

\* ------------------------------------------------- objects as key/value lists
\* A JavaScript object is the list of its own properties in insertion order.
Prop(k, v) == [key |-> k, value |-> v]
Keys(o) == {o[i].key : i \in 1..Len(o)}
Has(o, k) == k \in Keys(o)
Get(o, k) == IF Has(o, k) THEN o[CHOOSE i \in 1..Len(o) : o[i].key = k].value ELSE Absent
\* o[k] = v: an existing key keeps its place, a new key goes last.
Put(o, k, v) ==
    IF Has(o, k) THEN [i \in 1..Len(o) |-> IF o[i].key = k THEN Prop(k, v) ELSE o[i]]
    ELSE Append(o, Prop(k, v))
RECURSIVE Delete(_, _)
Delete(o, k) ==
    IF o = <<>> THEN <<>>
    ELSE IF Head(o).key = k THEN Tail(o)
    ELSE <<Head(o)>> \o Delete(Tail(o), k)
\* { ...a, ...b } and Object.assign(a, b).
RECURSIVE Spread(_, _)
Spread(a, b) == IF b = <<>> THEN a ELSE Spread(Put(a, Head(b).key, Head(b).value), Tail(b))

\* ------------------------------------------------------- the test blueprints
Factories == {"UserFactory", "PetFactory", "ProfileFactory", "CourseFactory",
              "CourseEnrollmentFactory",
              "NoteFactory", "LedgerFactory", "OwnerFactory", "OwnedPetFactory"}
model(F) ==
    CASE F = "UserFactory" -> "UserEntity"
      [] F = "PetFactory" -> "PetEntity"
      [] F = "ProfileFactory" -> "ProfileEntity"
      [] F = "CourseFactory" -> "CourseEntity"
      [] F = "CourseEnrollmentFactory" -> "CourseEnrollmentEntity"
      [] F = "NoteFactory" -> "NoteEntity"
      [] F = "LedgerFactory" -> "LedgerEntity"
      [] F = "OwnerFactory" -> "OwnerEntity"
      [] F = "OwnedPetFactory" -> "OwnedPetEntity"

\* A faker value is an opaque plain value.
Faker == Plain("faker")

UserFactory_define ==
    <<Prop("email", sequence("user")), Prop("firstName", Faker), Prop("lastName", Faker),
      Prop("address", Faker), Prop("role", Faker)>>
UserFactory_variants ==
    <<Prop("admin", Obj(<<Prop("role", Plain("admin")), Prop("email", sequence("admin"))>>)),
      Prop("withPets", Obj(<<Prop("pets", hasMany("PetFactory", WithPetsCount, Absent, <<>>))>>)),
      Prop("withProfile", Obj(<<Prop("profile", hasOne("ProfileFactory", Absent, <<>>))>>)),
      Prop("withEmail", Obj(<<Prop("email", Plain("specific@test.com"))>>))>>
PetFactory_define ==
    <<Prop("name", Faker), Prop("type", Faker), Prop("species", Faker),
      Prop("user", belongsTo("UserFactory", Absent, <<>>))>>
PetFactory_variants ==
    <<Prop("dog", Obj(<<Prop("type", Plain("dog")), Prop("species", Plain("Labrador"))>>)),
      Prop("withAdminOwner", Obj(<<Prop("user", belongsTo("UserFactory", Absent, <<"admin">>))>>))>>
ProfileFactory_define ==
    <<Prop("bio", Faker), Prop("avatarUrl", Faker),
      Prop("user", belongsTo("UserFactory", Absent, <<>>))>>
ProfileFactory_variants ==
    <<Prop("short", Obj(<<Prop("bio", Plain("Short bio"))>>))>>
CourseFactory_define ==
    <<Prop("name", Faker), Prop("description", Faker)>>
CourseEnrollmentFactory_define ==
    <<Prop("pet", belongsTo("PetFactory", Absent, <<>>)),
      Prop("course", belongsTo("CourseFactory", Absent, <<>>)),
      Prop("enrolledAt", Plain("now")), Prop("grade", Faker)>>
\* Blueprints of entity types the data source was not built with: a note
\* that belongs to a user, a ledger that belongs to a user, and the pair of
\* the circular-relationship section, each side naming the other in define().
NoteFactory_define ==
    <<Prop("title", Faker), Prop("user", belongsTo("UserFactory", Absent, <<>>))>>
LedgerFactory_define ==
    <<Prop("title", Faker), Prop("user", belongsTo("UserFactory", Absent, <<>>))>>
OwnerFactory_define ==
    <<Prop("name", Faker), Prop("pets", hasMany("OwnedPetFactory", 1, Absent, <<>>))>>
OwnedPetFactory_define ==
    <<Prop("name", Faker), Prop("owner", belongsTo("OwnerFactory", Absent, <<>>))>>

\* this._factory.define(faker)
define(F) ==
    CASE F = "UserFactory" -> UserFactory_define
      [] F = "PetFactory" -> PetFactory_define
      [] F = "ProfileFactory" -> ProfileFactory_define
      [] F = "CourseFactory" -> CourseFactory_define
      [] F = "CourseEnrollmentFactory" -> CourseEnrollmentFactory_define
      [] F = "NoteFactory" -> NoteFactory_define
      [] F = "LedgerFactory" -> LedgerFactory_define
      [] F = "OwnerFactory" -> OwnerFactory_define
      [] F = "OwnedPetFactory" -> OwnedPetFactory_define
\* this._factory.variants(): Factory.variants returns {} unless a blueprint overrides it.
variants(F) ==
    CASE F = "UserFactory" -> UserFactory_variants
      [] F = "PetFactory" -> PetFactory_variants
      [] F = "ProfileFactory" -> ProfileFactory_variants
      [] OTHER -> <<>>

\* variantMap[name]: a property read follows the prototype chain, so a name
\* that Object.prototype defines reads as an inherited function (truthy, with
\* no own enumerable property) on every object literal.
ObjectPrototype == {"constructor", "toString"}
Function == [kind |-> "function"]
Read(o, k) ==
    IF Has(o, k) THEN Get(o, k)
    ELSE IF k \in ObjectPrototype THEN Function
    ELSE Absent

\* ------------------------------------------- the persistence collaborator's metadata
\* metadata.findRelationWithPropertyPath(property): join columns (property
\* name and referenced primary column) and the inverse side's property;
\* "-" stands for an empty inverse path.
NoRelation == [found |-> FALSE, joinColumns |-> <<>>, inverseSidePropertyPath |-> "-"]
Relation(jc, inv) == [found |-> TRUE, joinColumns |-> jc, inverseSidePropertyPath |-> inv]
JoinColumn(p, r) == [propertyName |-> p, referencedColumn |-> r]
UserEntity(p) ==
    CASE p = "pets" -> Relation(<<>>, "user")
      [] p = "profile" -> Relation(<<>>, "user")
      [] OTHER -> NoRelation
PetEntity(p) ==
    CASE p = "user" -> Relation(<<JoinColumn("user", "id")>>, "pets")
      [] OTHER -> NoRelation
ProfileEntity(p) ==
    CASE p = "user" -> Relation(<<JoinColumn("user", "id")>>, "profile")
      [] OTHER -> NoRelation
CourseEnrollmentEntity(p) ==
    CASE p = "pet" -> Relation(<<JoinColumn("petId", "id")>>, "-")
      [] p = "course" -> Relation(<<JoinColumn("courseId", "id")>>, "-")
      [] OTHER -> NoRelation
findRelationWithPropertyPath(M, p) ==
    CASE M = "UserEntity" -> UserEntity(p)
      [] M = "PetEntity" -> PetEntity(p)
      [] M = "ProfileEntity" -> ProfileEntity(p)
      [] M = "CourseEnrollmentEntity" -> CourseEnrollmentEntity(p)
      [] OTHER -> NoRelation
\* dataSource.getMetadata(Model): the metadata of an entity type the data
\* source was built with; EntityMetadataNotFoundError for a type it was not
\* built with; for LedgerEntity the lookup throws an error of another class.
DataSourceEntities == {"UserEntity", "PetEntity", "ProfileEntity", "CourseEntity",
                       "CourseEnrollmentEntity"}
getMetadata(M) ==
    IF M \in DataSourceEntities THEN "found"
    ELSE IF M = "LedgerEntity" THEN "error"
    ELSE "notFound"
\* The `throw e` of the catch blocks: the error is no EntityMetadataNotFoundError.
metadataThrows(M) == getMetadata(M) = "error"
\* metadata.primaryColumns, by property name.
primaryColumns(M) ==
    IF M = "CourseEnrollmentEntity" THEN <<"petId", "courseId">> ELSE <<"id">>
\* The relation properties of an entity type that own a join column.
relationProperties(M) ==
    CASE M = "PetEntity" -> <<"user">>
      [] M = "ProfileEntity" -> <<"user">>
      [] M = "CourseEnrollmentEntity" -> <<"pet", "course">>
      [] OTHER -> <<>>

\* ------------------------------------------------------------------- state
VARIABLES
    ctxs,              \* the SeedingContext objects, in construction order
    factoryCache,      \* the Map objects handed to contexts as _factoryCache
    sequenceCounters,  \* the Map objects handed to contexts as _sequenceCounters
    refStore,          \* the Map objects handed to contexts as _refStore
    creationLog,       \* the arrays handed to contexts as _creationLog
    store,             \* the user store objects
    nextInst,          \* identity of the next blueprint instance `new FactoryClass()` makes
    entities,          \* the entity objects constructed so far
    frames,            \* the resolve() invocations and Promise.all batches
    stack,             \* the frames running synchronously, innermost last
    cleanups,          \* the cleanup() invocations
    held,              \* blueprint singletons the caller keeps a reference to
    calls,             \* number of top-level build/persist calls made
    directs,           \* number of direct context API calls made
    lastOp,            \* the last direct context API call and its outcome
    seqTrace,          \* per blueprint class: values nextSequence returned since the last clear
    tempTrace,         \* per context: temp ids nextTempId returned since construction or reset
    saves,             \* every em.save invocation: handle, entity, issuing context
    removeEvents,      \* every em.remove start and completion
    savedSince         \* entities whose save completed since the last reset/cleanup

vars == <<ctxs, factoryCache, sequenceCounters, refStore, creationLog, store, nextInst,
          entities, frames, stack, cleanups, held, calls, directs, lastOp,
          seqTrace, tempTrace, saves, removeEvents, savedSince>>

ObjIds == 1..MaxCtx
Labels == {"admin", "other"}
\* dataSource.manager, the handle of a context made by createSeedingContext.
DsManager == 0

NoInstance == [inst |-> 0, ctx |-> 0, activeVariants |-> <<>>]
EmptyCache == [F \in Factories |-> NoInstance]
EmptyCounters == [F \in Factories |-> 0]
EmptyRefs == [l \in Labels |-> Absent]

\* new SeedingContext(dataSource, options): a structure the options do not
\* supply is allocated afresh (object id = index of the context being built).
SeedingContext(self, options) ==
    [factoryCache |-> IF options.factoryCache # 0 THEN options.factoryCache ELSE self,
     sequenceCounters |-> IF options.sequenceCounters # 0 THEN options.sequenceCounters ELSE self,
     tempIdCounter |-> -1,
     refStore |-> IF options.refStore # 0 THEN options.refStore ELSE self,
     creationLog |-> IF options.creationLog # 0 THEN options.creationLog ELSE self,
     store |-> IF options.store # 0 THEN options.store ELSE self,
     entityManager |-> IF options.entityManager # -1 THEN options.entityManager ELSE DsManager]

NoOptions == [factoryCache |-> 0, sequenceCounters |-> 0, refStore |-> 0,
              creationLog |-> 0, store |-> 0, entityManager |-> -1]
createSeedingContext == SeedingContext(1, NoOptions)

\* withTransaction(em) on context c: the options passed to the constructor.
withTransactionBugFreshLog(c, em) ==
    [factoryCache |-> ctxs[c].factoryCache, sequenceCounters |-> ctxs[c].sequenceCounters,
     refStore |-> ctxs[c].refStore, creationLog |-> 0,
     store |-> ctxs[c].store, entityManager |-> em]
withTransaction(c, em) ==
    [factoryCache |-> ctxs[c].factoryCache, sequenceCounters |-> ctxs[c].sequenceCounters,
     refStore |-> ctxs[c].refStore, creationLog |-> ctxs[c].creationLog,
     store |-> ctxs[c].store, entityManager |-> em]

\* getFactory(FactoryClass) on context c: the cache after the call.  The
\* instance is made and cached on a miss and is re-bound to c on every call.
getFactoryBugNoRebind(fc, inst, c, F) ==
    LET o == ctxs[c].factoryCache
    IN  IF fc[o][F].inst = 0
        THEN [fc EXCEPT ![o][F] = [inst |-> inst, ctx |-> c, activeVariants |-> <<>>]]
        ELSE fc
getFactory(fc, inst, c, F) ==
    LET o == ctxs[c].factoryCache
        cached == fc[o][F]
    IN  IF cached.inst = 0
        THEN [fc EXCEPT ![o][F] = [inst |-> inst, ctx |-> c, activeVariants |-> <<>>]]
        ELSE [fc EXCEPT ![o][F] = [cached EXCEPT !.ctx = c]]
getFactoryInst(fc, inst, c, F) ==
    IF fc[ctxs[c].factoryCache][F].inst = 0 THEN inst + 1 ELSE inst

\* receiver.variant(...names): the blueprint returned, a shallow copy of the
\* receiver (its _ctx as it is now) whose list is a new array, and the
\* receiver after the call.  Identity is given by the caller (inst).
variantBugMutatesReceiver(receiver, names) ==
    LET pushed == [receiver EXCEPT !.activeVariants = receiver.activeVariants \o names]
    IN  [clone |-> pushed, receiver |-> pushed]
variant(receiver, names) ==
    [clone |-> [receiver EXCEPT !.activeVariants = receiver.activeVariants \o names],
     receiver |-> receiver]

\* let factory = ctx.getFactory(F); if (names?.length) factory = factory.variant(...names)
\* on a cache fc that already holds the singleton: the blueprint chosen and the cache after.
withVariants(fc, c, F, names) ==
    LET o == ctxs[c].factoryCache
        r == IF names # <<>> THEN variant(fc[o][F], names)
                                ELSE [clone |-> fc[o][F], receiver |-> fc[o][F]]
    IN  [factory |-> r.clone, cache |-> [fc EXCEPT ![o][F] = r.receiver]]

\* nextSequence(FactoryClass) on a counters Map: the value returned and the Map after.
nextSequenceBugDouble(counters, F) ==
    [ret |-> counters[F] + 2, counters |-> [counters EXCEPT ![F] = counters[F] + 2]]
nextSequenceBugNoStore(counters, F) ==
    [ret |-> counters[F] + 1, counters |-> counters]
nextSequence(counters, F) ==
    LET current == counters[F]
        next == current + 1
    IN  [ret |-> next, counters |-> [counters EXCEPT ![F] = next]]

\* nextTempId() on a context record: the id returned and the counter after.
nextTempIdBugNoDecrement(tempIdCounter) ==
    [ret |-> tempIdCounter, tempIdCounter |-> tempIdCounter]
nextTempIdBugPreDecrement(tempIdCounter) ==
    [ret |-> tempIdCounter - 1, tempIdCounter |-> tempIdCounter - 1]
nextTempId(tempIdCounter) ==
    [ret |-> tempIdCounter, tempIdCounter |-> tempIdCounter - 1]

\* setRef(label, entity) on a label Map: throws when the label is registered.
setRefBugOverwrite(refs, label, entity) ==
    [ok |-> TRUE, refs |-> [refs EXCEPT ![label] = entity]]
setRef(refs, label, entity) ==
    IF refs[label] # Absent
    THEN [ok |-> FALSE, refs |-> refs]
    ELSE [ok |-> TRUE, refs |-> [refs EXCEPT ![label] = entity]]

\* ref(label) on a label Map: throws when the label is not registered, with a
\* message that names the label ("-": nothing thrown).
ctxRefBugUndefined(refs, label) == [ok |-> TRUE, value |-> refs[label], named |-> "-"]
ctxRef(refs, label) ==
    IF refs[label] = Absent THEN [ok |-> FALSE, value |-> Absent, named |-> label]
    ELSE [ok |-> TRUE, value |-> refs[label], named |-> "-"]

\* logCreation(model, entity) on a creation-log array.
logCreationBugPrepend(log, M, e) == <<[model |-> M, entity |-> e]>> \o log
logCreationBugBeforeLast(log, M, e) ==
    IF log = <<>> THEN <<[model |-> M, entity |-> e]>>
    ELSE Append(SubSeq(log, 1, Len(log) - 1), [model |-> M, entity |-> e])
            \o <<log[Len(log)]>>
logCreation(log, M, e) == Append(log, [model |-> M, entity |-> e])

\* ---------------------------------------------------- the resolver's helpers
\* JavaScript truthiness of an optional object argument.
Truthy(v) == v.kind \notin {"absent", "null"}
\* The own properties of an object value: an entity of the heap or a literal.
PropsOf(v) ==
    IF v.kind = "entity" THEN entities[v.id].props
    ELSE IF v.kind = "object" THEN v.props
    ELSE <<>>

\* SchemaResolver._hasNonNullPrimaryKey(Model, obj)
hasNonNullPrimaryKeyBugSome(M, obj) ==
    \E i \in 1..Len(primaryColumns(M)) : NonNull(Get(PropsOf(obj), primaryColumns(M)[i]))
hasNonNullPrimaryKey(M, obj) ==
    LET cols == primaryColumns(M)
    IN  IF getMetadata(M) = "notFound" THEN FALSE
        ELSE IF Len(cols) = 0 THEN FALSE
        ELSE \A i \in 1..Len(cols) : NonNull(Get(PropsOf(obj), cols[i]))

\* SchemaResolver._getPrimaryKeyPropertyNames(Model)
getPrimaryKeyPropertyNamesBugKnown(M) == primaryColumns(M)
getPrimaryKeyPropertyNames(M) ==
    IF getMetadata(M) = "notFound" THEN <<>> ELSE primaryColumns(M)

\* SchemaResolver._setForeignKey(schema, relationProperty, parent): the schema after.
RECURSIVE setJoinColumns(_, _, _, _)
setJoinColumns(schema, joinColumns, relationProperty, parent) ==
    IF joinColumns = <<>> THEN schema
    ELSE LET jc == Head(joinColumns)
             next == IF jc.propertyName # relationProperty
                     THEN Put(schema, jc.propertyName, Get(PropsOf(parent), jc.referencedColumn))
                     ELSE schema
         IN  setJoinColumns(next, Tail(joinColumns), relationProperty, parent)
setForeignKeyBugNothing(schema, relationProperty, parent, M) == schema
setForeignKey(schema, relationProperty, parent, M) ==
    LET relation == findRelationWithPropertyPath(M, relationProperty)
    IN  IF getMetadata(M) = "notFound" THEN schema
        ELSE IF relation.found /\ Len(relation.joinColumns) > 0
        THEN setJoinColumns(schema, relation.joinColumns, relationProperty, parent)
        ELSE schema

\* SchemaResolver._getInverseRelationName(Model, propertyName); "-" is null.
getInverseRelationNameBugNull(M, propertyName) == "-"
getInverseRelationName(M, propertyName) ==
    LET relation == findRelationWithPropertyPath(M, propertyName)
    IN  IF getMetadata(M) = "notFound" THEN "-"
        ELSE IF relation.found THEN relation.inverseSidePropertyPath ELSE "-"

\* Phase 2: the variants merged over the raw schema in activation order; an
\* undeclared name throws.
RECURSIVE mergeVariants(_, _, _)
mergeVariants(schema, activeVariants, F) ==
    IF activeVariants = <<>> THEN [ok |-> TRUE, schema |-> schema]
    ELSE LET variantData == Read(variants(F), Head(activeVariants))
         IN  IF ~Truthy(variantData) THEN [ok |-> FALSE, schema |-> schema]
             ELSE mergeVariants(Spread(schema, PropsOf(variantData)), Tail(activeVariants), F)

\* Phase 3: the caller's overrides replace key by key.
applyOverridesBugUnder(schema, overrides) ==
    IF Truthy(overrides) THEN Spread(PropsOf(overrides), schema) ELSE schema
applyOverrides(schema, overrides) ==
    IF Truthy(overrides) THEN Spread(schema, PropsOf(overrides)) ELSE schema

\* Phase 4: the loop over Object.entries(schema).  acc carries the schema, the
\* blueprint's counters Map, the sequence values handed out and the deferred
\* relationship descriptors; an unregistered label throws and ends the loop.
Deferred(key, d) == [key |-> key, descriptor |-> d]
resolveSimple(acc, key, value, F, refs) ==
    CASE value.kind = "sequence" ->
            LET r == nextSequence(acc.counters, F)
            IN  [acc EXCEPT !.schema = Put(@, key, SeqVal(value.tag, r.ret)),
                            !.counters = r.counters, !.rets = Append(@, r.ret)]
      [] value.kind = "ref" ->
            LET r == ctxRef(refs, value.label)
            IN  IF r.ok THEN [acc EXCEPT !.schema = Put(@, key, r.value)]
                ELSE [acc EXCEPT !.ok = FALSE, !.named = r.named]
      [] value.kind = "belongsTo" ->
            [acc EXCEPT !.deferredBelongsTo = Append(@, Deferred(key, value)),
                        !.schema = Delete(@, key)]
      [] value.kind = "hasMany" ->
            [acc EXCEPT !.deferredHasMany = Append(@, Deferred(key, value)),
                        !.schema = Delete(@, key)]
      [] value.kind = "hasOne" ->
            [acc EXCEPT !.deferredHasOne = Append(@, Deferred(key, value)),
                        !.schema = Delete(@, key)]
RECURSIVE resolveSimpleDescriptors(_, _, _, _)
resolveSimpleDescriptors(entries, acc, F, refs) ==
    IF entries = <<>> \/ ~acc.ok THEN acc
    ELSE LET key == Head(entries).key
             value == Head(entries).value
             next == IF isDescriptor(value) THEN resolveSimple(acc, key, value, F, refs) ELSE acc
         IN  resolveSimpleDescriptors(Tail(entries), next, F, refs)

\* Phase 6, build branch: a temp id for every primary-key column still null.
assignTempIdsBugOneId(cols, acc) ==
    LET r == nextTempId(acc.tempIdCounter)
        open == {i \in 1..Len(cols) : ~NonNull(Get(acc.props, cols[i]))}
    IN  IF open = {} THEN acc
        ELSE [props |-> Spread(acc.props, [i \in 1..Len(cols) |->
                                Prop(cols[i], IF i \in open THEN Num(r.ret)
                                              ELSE Get(acc.props, cols[i]))]),
              tempIdCounter |-> r.tempIdCounter,
              rets |-> <<r.ret>>]
RECURSIVE assignTempIds(_, _)
assignTempIds(cols, acc) ==
    IF cols = <<>> THEN acc
    ELSE IF NonNull(Get(acc.props, Head(cols))) THEN assignTempIds(Tail(cols), acc)
    ELSE LET r == nextTempId(acc.tempIdCounter)
         IN  assignTempIds(Tail(cols),
                 [props |-> Put(acc.props, Head(cols), Num(r.ret)),
                  tempIdCounter |-> r.tempIdCounter,
                  rets |-> Append(acc.rets, r.ret)])

\* Phase 6, persist branch: the relation objects of the belongs-to keys before save.
relationSnapshotBugEmpty(props, deferredBelongsTo) == <<>>
relationSnapshot(props, deferredBelongsTo) ==
    [i \in 1..Len(deferredBelongsTo) |->
        Prop(deferredBelongsTo[i].key, Get(props, deferredBelongsTo[i].key))]

\* em.save(entity) as the collaborator completes it.  It fills a null
\* foreign-key scalar from the relation object, writes the generated primary
\* key (the row id) into every primary column still null, and may replace
\* the relation objects of relations that have a scalar foreign-key property
\* of their own (strip = TRUE) or leave them (strip = FALSE).
RECURSIVE saveJoinColumns(_, _, _)
saveJoinColumns(props, M, rels) ==
    IF rels = <<>> THEN props
    ELSE LET r == Head(rels)
             related == Get(props, r)
             jcs == findRelationWithPropertyPath(M, r).joinColumns
             filled == IF related.kind = "entity"
                          /\ \A j \in 1..Len(jcs) : ~NonNull(Get(props, jcs[j].propertyName))
                       THEN setJoinColumns(props, jcs, r, related)
                       ELSE props
         IN  saveJoinColumns(filled, M, Tail(rels))
RECURSIVE saveGenerated(_, _, _)
saveGenerated(props, cols, rowId) ==
    IF cols = <<>> THEN props
    ELSE saveGenerated(IF NonNull(Get(props, Head(cols))) THEN props
                       ELSE Put(props, Head(cols), Num(rowId)),
                       Tail(cols), rowId)
RECURSIVE saveStrip(_, _, _)
saveStrip(props, M, rels) ==
    IF rels = <<>> THEN props
    ELSE LET r == Head(rels)
             jcs == findRelationWithPropertyPath(M, r).joinColumns
         IN  saveStrip(IF \E j \in 1..Len(jcs) : jcs[j].propertyName # r
                       THEN Delete(props, r) ELSE props,
                       M, Tail(rels))
save(M, props, rowId, strip) ==
    LET keyed == saveGenerated(saveJoinColumns(props, M, relationProperties(M)),
                               primaryColumns(M), rowId)
    IN  IF strip THEN saveStrip(keyed, M, relationProperties(M)) ELSE keyed

\* Phases 5 and 7: `if (this._persist)` picks persistOne/persist, else
\* buildOne/build, on the related blueprint: the mode of the nested call.
childPersistBugAlwaysBuild(persist) == FALSE
childPersist(persist) == persist

\* Phase 7: the overrides handed to has-many / has-one children.
childOverridesBugNoInverse(inverseRelation, entity, overrides) ==
    Obj(Spread(<<>>, PropsOf(overrides)))
childOverridesBugParentWins(inverseRelation, entity, overrides) ==
    Obj(Spread(PropsOf(overrides),
               IF inverseRelation # "-" THEN <<Prop(inverseRelation, Ent(entity))>> ELSE <<>>))
childOverrides(inverseRelation, entity, overrides) ==
    Obj(Spread(IF inverseRelation # "-" THEN <<Prop(inverseRelation, Ent(entity))>> ELSE <<>>,
               PropsOf(overrides)))

\* ------------------------------------------------------------------ frames
Frames == 1..Len(frames)
NewFrame(kind, parent, slot, F, activeVariants, c, persist, overrides, count, origin, label) ==
    [kind |-> kind, parent |-> parent, slot |-> slot, factory |-> F,
     activeVariants |-> activeVariants, ctx |-> c, persist |-> persist,
     overrides |-> overrides, count |-> count,
     pc |-> IF kind = "all" THEN "launch" ELSE "start", err |-> "-", named |-> "-",
     cause |-> 0,
     schema |-> <<>>, deferredBelongsTo |-> <<>>, deferredHasMany |-> <<>>,
     deferredHasOne |-> <<>>, relationSnapshot |-> <<>>, i |-> 1,
     entity |-> 0, kids |-> <<>>, origin |-> origin,
     as |-> label, asState |-> IF label = "-" THEN "-" ELSE "pending"]

Top == stack[Len(stack)]
Running(f) == stack # <<>> /\ Top = f
Idle == stack = <<>>

\* A Promise.all batch that has not made all its _resolveOne calls yet keeps
\* the control when the call it made returns; every other frame on the stack
\* is at an await (or has returned) and leaves the stack with the callee.
Launching(fr, a) == fr[a].kind = "all" /\ Len(fr[a].kids) < fr[a].count
KeepLen(st, fr) ==
    LET js == {j \in 1..Len(st) : Launching(fr, st[j])}
    IN  IF js = {} THEN 0 ELSE CHOOSE j \in js : \A k \in js : k <= j
Unwound(st, fr) == SubSeq(st, 1, KeepLen(st, fr))
Retired(st, fr) ==
    [x \in DOMAIN fr |->
        IF fr[x].kind = "all" /\ \E j \in (KeepLen(st, fr) + 1)..Len(st) : st[j] = x
        THEN [fr[x] EXCEPT !.pc = "awaitAll"]
        ELSE fr[x]]
\* The top frame suspended or returned with the frames fr: what is left running.
Suspend(fr) ==
    /\ frames' = Retired(stack, fr)
    /\ stack' = Unwound(stack, fr)

ctxVars == <<ctxs, factoryCache, sequenceCounters, refStore, creationLog, store, nextInst>>
driverVars == <<held, calls, directs, lastOp>>
ghostVars == <<seqTrace, tempTrace, saves, removeEvents, savedSince>>

\* -------------------------------------------- resolve(): the synchronous phases
\* Phases 1-4: define, variant merge, override merge, simple descriptors.
Phase1to4(f) ==
    /\ Running(f)
    /\ frames[f].kind = "resolve" /\ frames[f].pc = "start"
    /\ LET fr == frames[f]
           rawSchema == define(fr.factory)
           merged == mergeVariants(rawSchema, fr.activeVariants, fr.factory)
           o == ctxs[fr.ctx].sequenceCounters
           schema == applyOverrides(merged.schema, fr.overrides)
           p4 == resolveSimpleDescriptors(schema,
                    [ok |-> TRUE, named |-> "-", schema |-> schema,
                     counters |-> sequenceCounters[o], rets |-> <<>>, deferredBelongsTo |-> <<>>,
                     deferredHasMany |-> <<>>, deferredHasOne |-> <<>>],
                    fr.factory, refStore[ctxs[fr.ctx].refStore])
       IN  IF ~merged.ok
           THEN /\ Suspend([frames EXCEPT ![f] = [fr EXCEPT !.pc = "failed", !.err = "variant",
                                                                   !.cause = f]])
                /\ UNCHANGED <<sequenceCounters, seqTrace>>
           ELSE /\ sequenceCounters' = [sequenceCounters EXCEPT ![o] = p4.counters]
                /\ seqTrace' = [seqTrace EXCEPT ![fr.factory] = @ \o p4.rets]
                /\ IF p4.ok
                   THEN /\ frames' = [frames EXCEPT ![f] =
                                [fr EXCEPT !.pc = "p5", !.i = 1, !.schema = p4.schema,
                                           !.deferredBelongsTo = p4.deferredBelongsTo,
                                           !.deferredHasMany = p4.deferredHasMany,
                                           !.deferredHasOne = p4.deferredHasOne]]
                        /\ UNCHANGED stack
                   ELSE Suspend([frames EXCEPT ![f] = [fr EXCEPT !.pc = "failed", !.err = "ref",
                                                                   !.named = p4.named, !.cause = f]])
    /\ UNCHANGED <<ctxs, factoryCache, refStore, creationLog, store, nextInst, entities,
                   cleanups, driverVars, tempTrace, saves, removeEvents, savedSince>>

\* Phase 5, one deferred belongs-to entry: an existing entity is used as it
\* is, otherwise the related blueprint is invoked and awaited.
Phase5(f) ==
    /\ Running(f)
    /\ frames[f].kind = "resolve" /\ frames[f].pc = "p5"
    /\ LET fr == frames[f]
       IN  IF fr.i > Len(fr.deferredBelongsTo)
           THEN /\ frames' = [frames EXCEPT ![f] = [fr EXCEPT !.pc = "p6"]]
                /\ UNCHANGED <<stack, factoryCache, nextInst>>
           ELSE LET key == fr.deferredBelongsTo[fr.i].key
                    descriptor == fr.deferredBelongsTo[fr.i].descriptor
                    FactoryClass == descriptor.factoryRef
                    cache == getFactory(factoryCache, nextInst, fr.ctx, FactoryClass)
                    parentFactory == withVariants(cache, fr.ctx, FactoryClass, descriptor.variants)
                    given == descriptor.overridesOrEntity
                    kid == Len(frames) + 1
                IN  /\ factoryCache' = parentFactory.cache
                    /\ nextInst' = getFactoryInst(factoryCache, nextInst, fr.ctx, FactoryClass)
                    /\ IF \/ Truthy(given) /\ metadataThrows(model(FactoryClass))
                          \/ /\ Truthy(given) /\ hasNonNullPrimaryKey(model(FactoryClass), given)
                             /\ metadataThrows(model(fr.factory))
                       THEN Suspend([frames EXCEPT ![f] = [fr EXCEPT !.pc = "failed",
                                        !.err = "metadata", !.cause = f]])
                       ELSE IF Truthy(given) /\ hasNonNullPrimaryKey(model(FactoryClass), given)
                       THEN /\ frames' = [frames EXCEPT ![f] =
                                    [fr EXCEPT !.i = fr.i + 1,
                                               !.schema = setForeignKey(Put(fr.schema, key, given),
                                                              key, given, model(fr.factory))]]
                            /\ UNCHANGED stack
                       ELSE /\ frames' = Append(
                                    [frames EXCEPT ![f] = [fr EXCEPT !.pc = "awaitBT", !.kids = <<kid>>]],
                                    NewFrame("resolve", f, key, FactoryClass,
                                             parentFactory.factory.activeVariants,
                                             parentFactory.factory.ctx, childPersist(fr.persist), given, 0, fr.origin, "-"))
                            /\ stack' = Append(stack, kid)
    /\ UNCHANGED <<ctxs, sequenceCounters, refStore, creationLog, store, entities,
                   cleanups, driverVars, ghostVars>>

\* Phase 6: construct the entity, then save it (persist) or give it temp ids (build).
Phase6BugNoAwait(f) ==
    /\ Running(f)
    /\ frames[f].kind = "resolve" /\ frames[f].pc = "p6"
    /\ entities' = Append(entities, [model |-> model(frames[f].factory),
                                     props |-> Spread(<<>>, frames[f].schema),
                                     frame |-> f, persisted |-> FALSE])
    /\ frames' = [frames EXCEPT ![f] = [@ EXCEPT !.pc = "p7m", !.i = 1,
                                                 !.entity = Len(entities) + 1]]
    /\ UNCHANGED <<ctxVars, stack, cleanups, driverVars, ghostVars>>
Phase6(f) ==
    /\ Running(f)
    /\ frames[f].kind = "resolve" /\ frames[f].pc = "p6"
    /\ LET fr == frames[f]
           e == Len(entities) + 1
           props == Spread(<<>>, fr.schema)
       IN  IF fr.persist
           THEN /\ entities' = Append(entities, [model |-> model(fr.factory), props |-> props,
                                             frame |-> f, persisted |-> FALSE])
                /\ saves' = Append(saves, [em |-> ctxs[fr.ctx].entityManager, entity |-> e,
                                           origin |-> fr.origin])
                /\ Suspend([frames EXCEPT ![f] =
                        [fr EXCEPT !.pc = "saving", !.entity = e,
                                   !.relationSnapshot = relationSnapshot(props, fr.deferredBelongsTo)]])
                /\ UNCHANGED <<ctxs, tempTrace>>
           ELSE IF metadataThrows(model(fr.factory))
           THEN /\ Suspend([frames EXCEPT ![f] = [fr EXCEPT !.pc = "failed", !.err = "metadata",
                                                                   !.cause = f]])
                /\ UNCHANGED <<ctxs, tempTrace, entities, saves>>
           ELSE LET t == assignTempIds(getPrimaryKeyPropertyNames(model(fr.factory)),
                            [props |-> props, tempIdCounter |-> ctxs[fr.ctx].tempIdCounter,
                             rets |-> <<>>])
                IN  /\ entities' = Append(entities, [model |-> model(fr.factory), props |-> t.props,
                                                 frame |-> f, persisted |-> FALSE])
                    /\ ctxs' = [ctxs EXCEPT ![fr.ctx].tempIdCounter = t.tempIdCounter]
                    /\ tempTrace' = [tempTrace EXCEPT ![fr.ctx] =
                            @ \o [k \in 1..Len(t.rets) |-> [id |-> t.rets[k], entity |-> e]]]
                    /\ frames' = [frames EXCEPT ![f] = [fr EXCEPT !.pc = "p7m", !.i = 1, !.entity = e]]
                    /\ UNCHANGED <<stack, saves>>
    /\ UNCHANGED <<factoryCache, sequenceCounters, refStore, creationLog, store, nextInst,
                   cleanups, driverVars, seqTrace, removeEvents, savedSince>>

\* Phase 7, one deferred has-many entry: count children through build/persist.
Phase7HasMany(f) ==
    /\ Running(f)
    /\ frames[f].kind = "resolve" /\ frames[f].pc = "p7m"
    /\ LET fr == frames[f]
       IN  IF fr.i > Len(fr.deferredHasMany)
           THEN /\ frames' = [frames EXCEPT ![f] = [fr EXCEPT !.pc = "p7o", !.i = 1]]
                /\ UNCHANGED <<stack, factoryCache, nextInst>>
           ELSE LET key == fr.deferredHasMany[fr.i].key
                    descriptor == fr.deferredHasMany[fr.i].descriptor
                    ChildFactoryClass == descriptor.factoryRef
                    cache == getFactory(factoryCache, nextInst, fr.ctx, ChildFactoryClass)
                    childFactory == withVariants(cache, fr.ctx, ChildFactoryClass, descriptor.variants)
                    inverseRelation == getInverseRelationName(model(fr.factory), key)
                    kid == Len(frames) + 1
                IN  /\ factoryCache' = childFactory.cache
                    /\ nextInst' = getFactoryInst(factoryCache, nextInst, fr.ctx, ChildFactoryClass)
                    /\ IF metadataThrows(model(fr.factory))
                       THEN Suspend([frames EXCEPT ![f] = [fr EXCEPT !.pc = "failed",
                                        !.err = "metadata", !.cause = f]])
                       ELSE /\ frames' = Append(
                                    [frames EXCEPT ![f] = [fr EXCEPT !.pc = "awaitHM", !.kids = <<kid>>]],
                                    NewFrame("all", f, key, ChildFactoryClass,
                                             childFactory.factory.activeVariants, childFactory.factory.ctx,
                                             childPersist(fr.persist),
                                             childOverrides(inverseRelation, fr.entity, descriptor.overrides),
                                             descriptor.count, fr.origin, "-"))
                            /\ stack' = Append(stack, kid)
    /\ UNCHANGED <<ctxs, sequenceCounters, refStore, creationLog, store, entities,
                   cleanups, driverVars, ghostVars>>

\* Phase 7, one deferred has-one entry; after the last one resolve() returns.
Phase7HasOne(f) ==
    /\ Running(f)
    /\ frames[f].kind = "resolve" /\ frames[f].pc = "p7o"
    /\ LET fr == frames[f]
       IN  IF fr.i > Len(fr.deferredHasOne)
           THEN /\ Suspend([frames EXCEPT ![f] = [fr EXCEPT !.pc = "done"]])
                /\ UNCHANGED <<factoryCache, nextInst>>
           ELSE LET key == fr.deferredHasOne[fr.i].key
                    descriptor == fr.deferredHasOne[fr.i].descriptor
                    ChildFactoryClass == descriptor.factoryRef
                    cache == getFactory(factoryCache, nextInst, fr.ctx, ChildFactoryClass)
                    childFactory == withVariants(cache, fr.ctx, ChildFactoryClass, descriptor.variants)
                    inverseRelation == getInverseRelationName(model(fr.factory), key)
                    kid == Len(frames) + 1
                IN  /\ factoryCache' = childFactory.cache
                    /\ nextInst' = getFactoryInst(factoryCache, nextInst, fr.ctx, ChildFactoryClass)
                    /\ IF metadataThrows(model(fr.factory))
                       THEN Suspend([frames EXCEPT ![f] = [fr EXCEPT !.pc = "failed",
                                        !.err = "metadata", !.cause = f]])
                       ELSE /\ frames' = Append(
                                    [frames EXCEPT ![f] = [fr EXCEPT !.pc = "awaitHO", !.kids = <<kid>>]],
                                    NewFrame("resolve", f, key, ChildFactoryClass,
                                             childFactory.factory.activeVariants, childFactory.factory.ctx,
                                             childPersist(fr.persist),
                                             childOverrides(inverseRelation, fr.entity, descriptor.overrides),
                                             0, fr.origin, "-"))
                            /\ stack' = Append(stack, kid)
    /\ UNCHANGED <<ctxs, sequenceCounters, refStore, creationLog, store, entities,
                   cleanups, driverVars, ghostVars>>

\* Factory.build / Factory.persist: Array.from makes the next _resolveOne call.
AllLaunch(a) ==
    /\ Running(a)
    /\ frames[a].kind = "all" /\ frames[a].pc = "launch"
    /\ LET fr == frames[a]
           kid == Len(frames) + 1
       IN  IF Len(fr.kids) < fr.count
           THEN /\ frames' = Append(
                        [frames EXCEPT ![a] = [fr EXCEPT !.kids = Append(fr.kids, kid)]],
                        NewFrame("resolve", a, fr.slot, fr.factory, fr.activeVariants, fr.ctx,
                                 fr.persist, fr.overrides, 0, fr.origin, "-"))
                /\ stack' = Append(stack, kid)
           ELSE Suspend(frames)
    /\ UNCHANGED <<ctxVars, entities, cleanups, driverVars, ghostVars>>

\* ------------------------------------------- resolve(): resumption at an await
\* `await parentFactory.persistOne(...)` / buildOne(...) settles (phase 5).
ResumeBelongsTo(f) ==
    /\ Idle
    /\ frames[f].kind = "resolve" /\ frames[f].pc = "awaitBT"
    /\ LET fr == frames[f]
           kid == frames[fr.kids[1]]
           key == fr.deferredBelongsTo[fr.i].key
           parent == Ent(kid.entity)
       IN  /\ kid.pc \in {"done", "failed"}
           /\ IF kid.pc = "failed"
              THEN /\ frames' = [frames EXCEPT ![f] = [fr EXCEPT !.pc = "failed", !.err = kid.err,
                                                                   !.named = kid.named,
                                                                   !.cause = kid.cause]]
                   /\ UNCHANGED stack
              ELSE IF metadataThrows(model(fr.factory))
              THEN /\ frames' = [frames EXCEPT ![f] = [fr EXCEPT !.pc = "failed",
                                        !.err = "metadata", !.cause = f]]
                   /\ UNCHANGED stack
              ELSE /\ frames' = [frames EXCEPT ![f] =
                           [fr EXCEPT !.pc = "p5", !.i = fr.i + 1,
                                      !.schema = setForeignKey(Put(fr.schema, key, parent),
                                                     key, parent, model(fr.factory))]]
                   /\ stack' = <<f>>
    /\ UNCHANGED <<ctxVars, entities, cleanups, driverVars, ghostVars>>

\* `await em.save(entity)` fulfils (phase 6): restore the snapshot, log the creation.
SaveResolve(f, strip) ==
    /\ Idle
    /\ frames[f].kind = "resolve" /\ frames[f].pc = "saving"
    /\ LET fr == frames[f]
           e == fr.entity
           M == model(fr.factory)
           o == ctxs[fr.ctx].creationLog
           saved == save(M, entities[e].props, e, strip)
       IN  /\ entities' = [entities EXCEPT ![e].props = Spread(saved, fr.relationSnapshot),
                                           ![e].persisted = TRUE]
           /\ creationLog' = [creationLog EXCEPT ![o] = logCreation(@, M, e)]
           /\ savedSince' = [savedSince EXCEPT ![o] = Append(@, e)]
           /\ frames' = [frames EXCEPT ![f] = [fr EXCEPT !.pc = "p7m", !.i = 1]]
           /\ stack' = <<f>>
    /\ UNCHANGED <<ctxs, factoryCache, sequenceCounters, refStore, store, nextInst,
                   cleanups, driverVars, seqTrace, tempTrace, saves, removeEvents>>

\* `await em.save(entity)` rejects: resolve() rejects with the error.
SaveRejectBugContinues(f) ==
    /\ Idle
    /\ frames[f].kind = "resolve" /\ frames[f].pc = "saving"
    /\ frames' = [frames EXCEPT ![f] = [@ EXCEPT !.pc = "p7m", !.i = 1]]
    /\ stack' = <<f>>
    /\ UNCHANGED <<ctxVars, entities, cleanups, driverVars, ghostVars>>
SaveReject(f) ==
    /\ Idle
    /\ frames[f].kind = "resolve" /\ frames[f].pc = "saving"
    /\ frames' = [frames EXCEPT ![f] = [@ EXCEPT !.pc = "failed", !.err = "save", !.cause = f]]
    /\ UNCHANGED <<ctxVars, entities, stack, cleanups, driverVars, ghostVars>>

\* `await childFactory.persist(count, ...)` / build(count, ...) settles (phase 7).
ResumeHasMany(f) ==
    /\ Idle
    /\ frames[f].kind = "resolve" /\ frames[f].pc = "awaitHM"
    /\ LET fr == frames[f]
           all == frames[fr.kids[1]]
           key == fr.deferredHasMany[fr.i].key
           children == List([k \in 1..Len(all.kids) |-> frames[all.kids[k]].entity])
       IN  /\ all.pc \in {"done", "failed"}
           /\ IF all.pc = "failed"
              THEN /\ frames' = [frames EXCEPT ![f] = [fr EXCEPT !.pc = "failed", !.err = all.err,
                                                                   !.named = all.named,
                                                                   !.cause = all.cause]]
                   /\ UNCHANGED <<stack, entities>>
              ELSE /\ entities' = [entities EXCEPT ![fr.entity].props = Put(@, key, children)]
                   /\ frames' = [frames EXCEPT ![f] = [fr EXCEPT !.pc = "p7m", !.i = fr.i + 1]]
                   /\ stack' = <<f>>
    /\ UNCHANGED <<ctxVars, cleanups, driverVars, ghostVars>>

\* `await childFactory.persistOne(...)` / buildOne(...) settles (phase 7).
ResumeHasOne(f) ==
    /\ Idle
    /\ frames[f].kind = "resolve" /\ frames[f].pc = "awaitHO"
    /\ LET fr == frames[f]
           kid == frames[fr.kids[1]]
           key == fr.deferredHasOne[fr.i].key
       IN  /\ kid.pc \in {"done", "failed"}
           /\ IF kid.pc = "failed"
              THEN /\ frames' = [frames EXCEPT ![f] = [fr EXCEPT !.pc = "failed", !.err = kid.err,
                                                                   !.named = kid.named,
                                                                   !.cause = kid.cause]]
                   /\ UNCHANGED <<stack, entities>>
              ELSE /\ entities' = [entities EXCEPT ![fr.entity].props = Put(@, key, Ent(kid.entity))]
                   /\ frames' = [frames EXCEPT ![f] = [fr EXCEPT !.pc = "p7o", !.i = fr.i + 1]]
                   /\ stack' = <<f>>
    /\ UNCHANGED <<ctxVars, cleanups, driverVars, ghostVars>>

\* Promise.all settles: rejected with the first rejection, fulfilled when all are.
AllSettle(a) ==
    /\ Idle
    /\ frames[a].kind = "all" /\ frames[a].pc = "awaitAll"
    /\ LET fr == frames[a]
           failed == {k \in 1..Len(fr.kids) : frames[fr.kids[k]].pc = "failed"}
       IN  /\ failed # {} \/ \A k \in 1..Len(fr.kids) : frames[fr.kids[k]].pc = "done"
           /\ frames' = [frames EXCEPT ![a] =
                  IF failed # {}
                  THEN LET first == frames[fr.kids[CHOOSE k \in failed : TRUE]]
                       IN  [fr EXCEPT !.pc = "failed", !.err = first.err, !.named = first.named,
                                      !.cause = first.cause]
                  ELSE [fr EXCEPT !.pc = "done"]]
    /\ UNCHANGED <<ctxVars, entities, stack, cleanups, driverVars, ghostVars>>

\* The .as(label) callback: promise.then(entity => this._ctx.setRef(label, entity)).
AsCtx(fr) ==
    IF fr.activeVariants = <<>>
    THEN factoryCache[ctxs[fr.origin].factoryCache][fr.factory].ctx
    ELSE fr.ctx
AsCallback(f) ==
    /\ Idle
    /\ frames[f].asState = "pending" /\ frames[f].pc \in {"done", "failed"}
    /\ LET fr == frames[f]
           o == ctxs[AsCtx(fr)].refStore
           r == setRef(refStore[o], fr.as, Ent(fr.entity))
       IN  IF fr.pc = "failed"
           THEN /\ frames' = [frames EXCEPT ![f] = [fr EXCEPT !.asState = "skipped"]]
                /\ UNCHANGED refStore
           ELSE /\ refStore' = [refStore EXCEPT ![o] = r.refs]
                /\ frames' = [frames EXCEPT ![f] =
                        [fr EXCEPT !.asState = IF r.ok THEN "set" ELSE "rejected"]]
    /\ UNCHANGED <<ctxs, factoryCache, sequenceCounters, creationLog, store, nextInst,
                   entities, stack, cleanups, driverVars, ghostVars>>

\* ------------------------------------------------------------- cleanup()
\* One iteration of the loop of cleanup(), from the index test to the await.
cleanupStepBugForward(task, log) ==
    IF task.i < 1 THEN [task EXCEPT !.pc = "done"]
    ELSE IF task.i > Len(log) THEN [task EXCEPT !.pc = "failed"]
    ELSE [task EXCEPT !.pc = "removing",
                      !.deleted = Append(@, log[Len(log) + 1 - task.i].entity)]
cleanupStep(task, log) ==
    IF task.i < 1 THEN [task EXCEPT !.pc = "done"]
    ELSE IF task.i > Len(log) THEN [task EXCEPT !.pc = "failed"]
    ELSE [task EXCEPT !.pc = "removing", !.deleted = Append(@, log[task.i].entity)]
RemoveStarted(task) ==
    IF task.pc = "removing"
    THEN <<[task |-> task.id, entity |-> task.deleted[Len(task.deleted)],
            em |-> task.em, phase |-> "start"]>>
    ELSE <<>>

\* `const em = this._entityManager` of cleanup() on context c.
cleanupHandleBugDataSource(c) == DsManager
cleanupHandle(c) == ctxs[c].entityManager

\* ctx.cleanup() is called: the loop runs up to its first `await em.remove`.
Cleanup(c) ==
    /\ Idle
    /\ directs < MaxDirect
    /\ \A k \in 1..Len(cleanups) : cleanups[k].pc # "removing"
    /\ LET o == ctxs[c].creationLog
           log == creationLog[o]
           task == cleanupStep([id |-> Len(cleanups) + 1, ctx |-> c,
                                em |-> cleanupHandle(c), i |-> Len(log),
                                pc |-> "loop", snapshot |-> log, deleted |-> <<>>], log)
       IN  /\ cleanups' = Append(cleanups, task)
           /\ removeEvents' = removeEvents \o RemoveStarted(task)
           /\ creationLog' = IF task.pc = "done" THEN [creationLog EXCEPT ![o] = <<>>]
                             ELSE creationLog
           /\ savedSince' = IF task.pc = "done" THEN [savedSince EXCEPT ![o] = <<>>]
                            ELSE savedSince
    /\ directs' = directs + 1
    /\ lastOp' = [op |-> "cleanup", ctx |-> c, ok |-> TRUE, ret |-> Absent]
    /\ UNCHANGED <<ctxs, factoryCache, sequenceCounters, refStore, store, nextInst,
                   entities, frames, stack, held, calls, seqTrace, tempTrace, saves>>

\* `await em.remove(entity)` fulfils: the loop goes on to the next index.
RemoveResolve(k) ==
    /\ Idle
    /\ k \in 1..Len(cleanups) /\ cleanups[k].pc = "removing"
    /\ LET o == ctxs[cleanups[k].ctx].creationLog
           ended == [task |-> k, entity |-> cleanups[k].deleted[Len(cleanups[k].deleted)],
                     em |-> cleanups[k].em, phase |-> "end"]
           task == cleanupStep([cleanups[k] EXCEPT !.i = @ - 1], creationLog[o])
       IN  /\ cleanups' = [cleanups EXCEPT ![k] = task]
           /\ removeEvents' = Append(removeEvents, ended) \o RemoveStarted(task)
           /\ creationLog' = IF task.pc = "done" THEN [creationLog EXCEPT ![o] = <<>>]
                             ELSE creationLog
           /\ savedSince' = IF task.pc = "done" THEN [savedSince EXCEPT ![o] = <<>>]
                            ELSE savedSince
    /\ UNCHANGED <<ctxs, factoryCache, sequenceCounters, refStore, store, nextInst,
                   entities, frames, stack, driverVars, seqTrace, tempTrace, saves>>

\* `await em.remove(entity)` rejects: cleanup() rejects, the log is not cleared.
RemoveRejectBugClears(k) ==
    /\ Idle
    /\ k \in 1..Len(cleanups) /\ cleanups[k].pc = "removing"
    /\ cleanups' = [cleanups EXCEPT ![k].pc = "failed"]
    /\ removeEvents' = Append(removeEvents,
            [task |-> k, entity |-> cleanups[k].deleted[Len(cleanups[k].deleted)],
             em |-> cleanups[k].em, phase |-> "end"])
    /\ creationLog' = [creationLog EXCEPT ![ctxs[cleanups[k].ctx].creationLog] = <<>>]
    /\ UNCHANGED <<ctxs, factoryCache, sequenceCounters, refStore, store, nextInst,
                   entities, frames, stack, driverVars, seqTrace, tempTrace,
                   saves, savedSince>>
RemoveReject(k) ==
    /\ Idle
    /\ k \in 1..Len(cleanups) /\ cleanups[k].pc = "removing"
    /\ cleanups' = [cleanups EXCEPT ![k].pc = "failed"]
    /\ removeEvents' = Append(removeEvents,
            [task |-> k, entity |-> cleanups[k].deleted[Len(cleanups[k].deleted)],
             em |-> cleanups[k].em, phase |-> "end"])
    /\ UNCHANGED <<ctxVars, entities, frames, stack, driverVars, seqTrace, tempTrace,
                   saves, savedSince>>

\* ------------------------------------------------- the caller's statements
Ctxs == 1..Len(ctxs)
NoCleanupRunning == \A k \in 1..Len(cleanups) : cleanups[k].pc # "removing"
Op(op, c, ok, ret) == [op |-> op, ctx |-> c, ok |-> ok, ret |-> ret]
Direct(op) ==
    /\ Idle
    /\ directs < MaxDirect
    /\ directs' = directs + 1
    /\ lastOp' = op
    /\ UNCHANGED <<held, calls>>

\* child = ctx.withTransaction(em); every call brings a handle of its own.
WithTransaction(c) ==
    /\ Idle
    /\ Len(ctxs) < MaxCtx
    /\ LET self == Len(ctxs) + 1
       IN  ctxs' = Append(ctxs, SeedingContext(self, withTransaction(c, self)))
    /\ UNCHANGED <<factoryCache, sequenceCounters, refStore, creationLog, store, nextInst,
                   entities, frames, stack, cleanups, driverVars, ghostVars>>

\* The blueprint object behind a reference the caller keeps: the cached
\* singleton, or a copy that variant() made, which has its own fields.
Blueprint(h) ==
    IF held[h].own
    THEN [inst |-> held[h].inst, ctx |-> held[h].ctx, activeVariants |-> held[h].activeVariants]
    ELSE factoryCache[ctxs[held[h].from].factoryCache][held[h].factory]

\* factory = ctx.getFactory(FactoryClass), kept by the caller for later calls.
GetFactory(c, F) ==
    /\ factoryCache' = getFactory(factoryCache, nextInst, c, F)
    /\ nextInst' = getFactoryInst(factoryCache, nextInst, c, F)
    /\ held' = Append(held, [factory |-> F, from |-> c,
                             inst |-> factoryCache'[ctxs[c].factoryCache][F].inst,
                             own |-> FALSE, ctx |-> 0, activeVariants |-> <<>>])
    /\ Idle
    /\ directs < MaxDirect
    /\ directs' = directs + 1
    /\ lastOp' = Op("getFactory", c, TRUE, Absent)
    /\ UNCHANGED <<ctxs, sequenceCounters, refStore, creationLog, store, entities, frames,
                   stack, cleanups, calls, ghostVars>>

NextSequence(c, F) ==
    /\ LET o == ctxs[c].sequenceCounters
           r == nextSequence(sequenceCounters[o], F)
       IN  /\ sequenceCounters' = [sequenceCounters EXCEPT ![o] = r.counters]
           /\ seqTrace' = [seqTrace EXCEPT ![F] = Append(@, r.ret)]
           /\ Direct(Op("nextSequence", c, TRUE, Num(r.ret)))
    /\ UNCHANGED <<ctxs, factoryCache, refStore, creationLog, store, nextInst, entities,
                   frames, stack, cleanups, tempTrace, saves, removeEvents, savedSince>>

NextTempId(c) ==
    /\ LET r == nextTempId(ctxs[c].tempIdCounter)
       IN  /\ ctxs' = [ctxs EXCEPT ![c].tempIdCounter = r.tempIdCounter]
           /\ tempTrace' = [tempTrace EXCEPT ![c] = Append(@, [id |-> r.ret, entity |-> 0])]
           /\ Direct(Op("nextTempId", c, TRUE, Num(r.ret)))
    /\ UNCHANGED <<factoryCache, sequenceCounters, refStore, creationLog, store, nextInst,
                   entities, frames, stack, cleanups, seqTrace, saves, removeEvents, savedSince>>

SetRef(c, label, e) ==
    /\ e \in 1..Len(entities)
    /\ LET o == ctxs[c].refStore
           r == setRef(refStore[o], label, Ent(e))
       IN  /\ refStore' = [refStore EXCEPT ![o] = r.refs]
           /\ Direct([op |-> "setRef", ctx |-> c, ok |-> r.ok, ret |-> Absent,
                      label |-> label, entity |-> e])
    /\ UNCHANGED <<ctxs, factoryCache, sequenceCounters, creationLog, store, nextInst,
                   entities, frames, stack, cleanups, ghostVars>>

Ref(c, label) ==
    /\ LET r == ctxRef(refStore[ctxs[c].refStore], label)
       IN  Direct([op |-> "ref", ctx |-> c, ok |-> r.ok, ret |-> r.value, label |-> label,
                   named |-> r.named])
    /\ UNCHANGED <<ctxVars, entities, frames, stack, cleanups, ghostVars>>

ClearRefs(c) ==
    /\ refStore' = [refStore EXCEPT ![ctxs[c].refStore] = EmptyRefs]
    /\ Direct(Op("clearRefs", c, TRUE, Absent))
    /\ UNCHANGED <<ctxs, factoryCache, sequenceCounters, creationLog, store, nextInst,
                   entities, frames, stack, cleanups, ghostVars>>

ResetSequences(c) ==
    /\ sequenceCounters' = [sequenceCounters EXCEPT ![ctxs[c].sequenceCounters] = EmptyCounters]
    /\ seqTrace' = [F \in Factories |-> <<>>]
    /\ Direct(Op("resetSequences", c, TRUE, Absent))
    /\ UNCHANGED <<ctxs, factoryCache, refStore, creationLog, store, nextInst, entities,
                   frames, stack, cleanups, tempTrace, saves, removeEvents, savedSince>>

ResetBugKeepTempIds(c) ==
    /\ NoCleanupRunning
    /\ sequenceCounters' = [sequenceCounters EXCEPT ![ctxs[c].sequenceCounters] = EmptyCounters]
    /\ refStore' = [refStore EXCEPT ![ctxs[c].refStore] = EmptyRefs]
    /\ creationLog' = [creationLog EXCEPT ![ctxs[c].creationLog] = <<>>]
    /\ seqTrace' = [F \in Factories |-> <<>>]
    /\ savedSince' = [savedSince EXCEPT ![ctxs[c].creationLog] = <<>>]
    /\ Direct(Op("reset", c, TRUE, Absent))
    /\ UNCHANGED <<ctxs, tempTrace, factoryCache, store, nextInst, entities, frames, stack,
                   cleanups, saves, removeEvents>>

\* ctx.reset(); the caller does not reset while a cleanup() it started is pending.
Reset(c) ==
    /\ NoCleanupRunning
    /\ sequenceCounters' = [sequenceCounters EXCEPT ![ctxs[c].sequenceCounters] = EmptyCounters]
    /\ refStore' = [refStore EXCEPT ![ctxs[c].refStore] = EmptyRefs]
    /\ creationLog' = [creationLog EXCEPT ![ctxs[c].creationLog] = <<>>]
    /\ ctxs' = [ctxs EXCEPT ![c].tempIdCounter = -1]
    /\ seqTrace' = [F \in Factories |-> <<>>]
    /\ tempTrace' = [tempTrace EXCEPT ![c] = <<>>]
    /\ savedSince' = [savedSince EXCEPT ![ctxs[c].creationLog] = <<>>]
    /\ Direct(Op("reset", c, TRUE, Absent))
    /\ UNCHANGED <<factoryCache, store, nextInst, entities, frames, stack, cleanups,
                   saves, removeEvents>>

\* ctx.store.key = value
SetStore(c, value) ==
    /\ store' = [store EXCEPT ![ctxs[c].store] = Put(@, "key", Plain(value))]
    /\ Direct(Op("store", c, TRUE, Absent))
    /\ UNCHANGED <<ctxs, factoryCache, sequenceCounters, refStore, creationLog, nextInst,
                   entities, frames, stack, cleanups, ghostVars>>

\* ctx.getFactory(F)[.variant(...names)].buildOne/build/persistOne/persist(...)[.as(label)]
\* as one statement: kind "resolve" is the ...One call, kind "all" the counted one.
Call(c, F, names, kind, persist, count, overrides, label) ==
    /\ Idle
    /\ calls < MaxCalls
    /\ Len(frames) < MaxFrames
    /\ LET factory == withVariants(getFactory(factoryCache, nextInst, c, F), c, F, names)
       IN  /\ factoryCache' = factory.cache
           /\ frames' = Append(frames,
                    NewFrame(kind, 0, "-", F, factory.factory.activeVariants, factory.factory.ctx,
                             persist, overrides, count, c, label))
    /\ nextInst' = getFactoryInst(factoryCache, nextInst, c, F)
    /\ stack' = <<Len(frames) + 1>>
    /\ calls' = calls + 1
    /\ UNCHANGED <<ctxs, sequenceCounters, refStore, creationLog, store, entities,
                   cleanups, held, directs, lastOp, ghostVars>>

\* factory.buildOne() / factory.persistOne() on a blueprint the caller kept:
\* _resolveOne reads the blueprint's _ctx when it is called.
CallHeld(h, persist) ==
    /\ Idle
    /\ calls < MaxCalls
    /\ Len(frames) < MaxFrames
    /\ h \in 1..Len(held)
    /\ frames' = Append(frames,
            NewFrame("resolve", 0, "-", held[h].factory, Blueprint(h).activeVariants,
                     Blueprint(h).ctx, persist, Absent, 0, held[h].from, "-"))
    /\ stack' = <<Len(frames) + 1>>
    /\ calls' = calls + 1
    /\ UNCHANGED <<ctxVars, entities, cleanups, held, directs, lastOp, ghostVars>>

\* copy = factory.variant(...names) on a blueprint the caller kept; the caller
\* keeps the copy as well.
Variant(h, names) ==
    /\ Idle
    /\ h \in 1..Len(held)
    /\ Len(held) < MaxHeld
    /\ LET r == variant(Blueprint(h), names)
           o == ctxs[held[h].from].factoryCache
       IN  /\ held' = Append(
                    IF held[h].own
                    THEN [held EXCEPT ![h].ctx = r.receiver.ctx,
                                      ![h].activeVariants = r.receiver.activeVariants]
                    ELSE held,
                    [factory |-> held[h].factory, from |-> held[h].from, inst |-> nextInst,
                     own |-> TRUE, ctx |-> r.clone.ctx,
                     activeVariants |-> r.clone.activeVariants])
           /\ factoryCache' = IF held[h].own THEN factoryCache
                              ELSE [factoryCache EXCEPT ![o][held[h].factory] = r.receiver]
    /\ nextInst' = nextInst + 1
    /\ UNCHANGED <<ctxs, sequenceCounters, refStore, creationLog, store, entities, frames,
                   stack, cleanups, calls, directs, lastOp, ghostVars>>

\* The synchronous segment that is running makes its next step.
Run ==
    \E f \in Frames :
        \/ Phase1to4(f)
        \/ Phase5(f)
        \/ Phase6(f)
        \/ Phase7HasMany(f)
        \/ Phase7HasOne(f)
        \/ AllLaunch(f)

\* ---------------------------------------------------------------- initial state
Init ==
    /\ ctxs = <<createSeedingContext>>
    /\ factoryCache = [o \in ObjIds |-> EmptyCache]
    /\ sequenceCounters = [o \in ObjIds |-> EmptyCounters]
    /\ refStore = [o \in ObjIds |-> EmptyRefs]
    /\ creationLog = [o \in ObjIds |-> <<>>]
    /\ store = [o \in ObjIds |-> <<>>]
    /\ nextInst = 1
    /\ entities = <<>>
    /\ frames = <<>>
    /\ stack = <<>>
    /\ cleanups = <<>>
    /\ held = <<>>
    /\ calls = 0
    /\ directs = 0
    /\ lastOp = Op("init", 0, TRUE, Absent)
    /\ seqTrace = [F \in Factories |-> <<>>]
    /\ tempTrace = [c \in ObjIds |-> <<>>]
    /\ saves = <<>>
    /\ removeEvents = <<>>
    /\ savedSince = [o \in ObjIds |-> <<>>]

\* ------------------------------------------------ sequence counters (build mode)
NextSeq ==
    \/ Len(ctxs) = 1 /\ WithTransaction(1)
    \/ \E c \in Ctxs : Call(c, "UserFactory", <<>>, "resolve", FALSE, 0, Absent, "-")
    \/ \E c \in Ctxs : Call(c, "UserFactory", <<"admin">>, "resolve", FALSE, 0, Absent, "-")
    \/ \E c \in Ctxs : Call(c, "PetFactory", <<>>, "resolve", FALSE, 0, Absent, "-")
    \/ \E c \in Ctxs, F \in {"UserFactory", "PetFactory"} : NextSequence(c, F)
    \/ \E c \in Ctxs : ResetSequences(c)
    \/ \E c \in Ctxs : Reset(c)
    \/ Run
    \/ \E f \in Frames : ResumeBelongsTo(f)
SpecSeq == Init /\ [][NextSeq]_vars

\* C1: since the counters were last cleared, the k-th nextSequence(F) call made
\* through a context or any context derived from it returned k, for every
\* blueprint class F, whatever calls for other classes came in between and
\* whether the resolving blueprint was the singleton or a variant clone.
SequenceReturnsCallCount ==
    \A F \in Factories : \A k \in 1..Len(seqTrace[F]) : seqTrace[F][k] = k
SequenceWitness ==
    /\ Len(seqTrace["UserFactory"]) >= 3
    /\ Len(seqTrace["PetFactory"]) >= 1
    /\ \E f, g \in Frames :
        /\ frames[f].factory = "UserFactory" /\ frames[g].factory = "UserFactory"
        /\ frames[f].kind = "resolve" /\ frames[g].kind = "resolve"
        /\ frames[f].pc = "done" /\ frames[g].pc = "done"
        /\ frames[f].ctx # frames[g].ctx
        /\ frames[f].activeVariants # <<>> /\ frames[g].activeVariants = <<>>

\* ------------------------------------------------ temp ids and variants (build mode)
SuppliedKey == Obj(<<Prop("id", Num(7))>>)
NextBuild ==
    \/ Len(ctxs) = 1 /\ WithTransaction(1)
    \/ \E c \in Ctxs : Call(c, "UserFactory", <<>>, "resolve", FALSE, 0, Absent, "-")
    \/ \E c \in Ctxs : Call(c, "PetFactory", <<>>, "resolve", FALSE, 0, Absent, "-")
    \/ \E c \in Ctxs : Call(c, "UserFactory", <<>>, "resolve", FALSE, 0, SuppliedKey, "-")
    \/ \E c \in Ctxs, name \in {"admin", "nope", "toString"} :
            Call(c, "UserFactory", <<name>>, "resolve", FALSE, 0, Absent, "-")
    \/ \E c \in Ctxs : NextTempId(c)
    \/ \E c \in Ctxs : Reset(c)
    \/ Run
    \/ \E f \in Frames : ResumeBelongsTo(f)
SpecBuild == Init /\ [][NextBuild]_vars

\* The entities constructed in build mode by resolve() calls running on context c.
Built(c) ==
    {e \in 1..Len(entities) :
        ~frames[entities[e].frame].persist /\ frames[entities[e].frame].ctx = c}
KeyOf(e) == Get(entities[e].props, "id")

Undeclared(f) ==
    \E k \in 1..Len(frames[f].activeVariants) :
        ~Has(variants(frames[f].factory), frames[f].activeVariants[k])
UndeclaredVariantConstructsNothing ==
    \A f \in Frames :
        Undeclared(f) => frames[f].entity = 0 /\ frames[f].pc \in {"start", "failed"}

\* ------------------------------------------------ mutual has-many / belongs-to
NextMutual ==
    \/ Call(1, "UserFactory", <<"withPets">>, "resolve", FALSE, 0, Absent, "-")
    \/ Call(1, "UserFactory", <<"withPets">>, "resolve", TRUE, 0, Absent, "-")
    \/ Call(1, "PetFactory", <<>>, "resolve", TRUE, 0, Absent, "-")
    \/ Run
    \/ \E f \in Frames : ResumeBelongsTo(f)
    \/ \E f \in Frames, strip \in BOOLEAN : SaveResolve(f, strip)
    \/ \E f \in Frames : SaveReject(f)
    \/ \E f \in Frames : AllSettle(f)
    \/ \E f \in Frames : ResumeHasMany(f)
SpecMutual == Init /\ [][NextMutual]_vars

\* The invocations made, directly or through descriptors, on behalf of call f,
\* and the entities they constructed.
RECURSIVE Under(_, _)
Under(g, f) == g = f \/ (frames[g].parent # 0 /\ Under(frames[g].parent, f))
CreatedBy(f) == {e \in 1..Len(entities) : Under(entities[e].frame, f)}
Active(f, name) == \E k \in 1..Len(frames[f].activeVariants) : frames[f].activeVariants[k] = name
OfModel(es, M) == {e \in es : entities[e].model = M}

\* C3: a buildOne/persistOne call on UserFactory with the hasMany(PetFactory, k)
\* variant active, whose children declare `user` as belongsTo(UserFactory),
\* makes no more than k + 2 invocations (itself, the batch, the k children), at
\* no time has constructed a second user, every pet it constructed holds the
\* single user in `user`, and once it has returned it has constructed exactly
\* one user and exactly k pets, which are the user's `pets`.
MutualRelationOneParent ==
    \A f \in Frames :
        (frames[f].parent = 0 /\ frames[f].factory = "UserFactory" /\ Active(f, "withPets"))
        => LET made == CreatedBy(f)
               pets == OfModel(made, "PetEntity")
           IN  /\ Cardinality({g \in Frames : Under(g, f)}) <= WithPetsCount + 2
               /\ Cardinality(OfModel(made, "UserEntity")) <= 1
               /\ made = OfModel(made, "UserEntity") \cup pets
               /\ \A e \in pets : Get(entities[e].props, "user") = Ent(frames[f].entity)
               /\ frames[f].pc = "done" =>
                    /\ OfModel(made, "UserEntity") = {frames[f].entity}
                    /\ Cardinality(pets) = WithPetsCount
                    /\ LET children == Get(entities[frames[f].entity].props, "pets")
                       IN  /\ children.kind = "list"
                           /\ {children.ids[k] : k \in 1..Len(children.ids)} = pets
MutualRelationWitness ==
    \E f, g \in Frames :
        /\ frames[f].parent = 0 /\ Active(f, "withPets") /\ frames[f].pc = "done"
        /\ frames[g].parent = 0 /\ Active(g, "withPets") /\ frames[g].pc = "done"
        /\ frames[f].persist /\ ~frames[g].persist

\* ------------------------------------------------ creation log and cleanup
NextPersist ==
    \/ Len(ctxs) = 1 /\ WithTransaction(1)
    \/ \E c \in Ctxs : Call(c, "PetFactory", <<>>, "resolve", TRUE, 0, Absent, "-")
    \/ Call(1, "UserFactory", <<"withProfile">>, "resolve", TRUE, 0, Absent, "-")
    \/ Cleanup(1)
    \/ Reset(Len(ctxs))
    \/ Run
    \/ \E f \in Frames : ResumeBelongsTo(f)
    \/ \E f \in Frames, strip \in BOOLEAN : SaveResolve(f, strip)
    \/ \E f \in Frames : SaveReject(f)
    \/ \E f \in Frames : ResumeHasOne(f)
    \/ \E k \in 1..Len(cleanups) : RemoveResolve(k)
SpecPersist == Init /\ [][NextPersist]_vars

LogEntities(o) == [k \in 1..Len(creationLog[o]) |-> creationLog[o][k].entity]
\* The save of entity e has completed successfully: its resolve() is past the await.
SaveCompleted(e) ==
    /\ entities[e].persisted
    /\ \E k \in 1..Len(saves) : saves[k].entity = e
    /\ frames[entities[e].frame].persist /\ frames[entities[e].frame].pc # "saving"
\* A step changes a creation log only by appending the entity whose save the
\* step completed, or by emptying it in reset() or at the end of a cleanup().
LogStep(o) ==
    \/ creationLog'[o] = creationLog[o]
    \/ /\ Len(creationLog'[o]) = Len(creationLog[o]) + 1
       /\ SubSeq(creationLog'[o], 1, Len(creationLog[o])) = creationLog[o]
       /\ LET e == creationLog'[o][Len(creationLog'[o])].entity
          IN  frames[entities[e].frame].pc = "saving" /\ frames'[entities[e].frame].pc = "p7m"
    \/ /\ creationLog'[o] = <<>>
       /\ \/ lastOp'.op = "reset" /\ directs' = directs + 1
          \/ \E k \in 1..Len(cleanups') :
                /\ cleanups'[k].pc = "done"
                /\ k \in 1..Len(cleanups) => cleanups[k].pc # "done"

\* C10: a creation log holds exactly the entities whose save has completed
\* through a context sharing the log since the log was last emptied by reset()
\* or by a completing cleanup(), each once, in the order the saves completed,
\* with the entity's type; and no step removes or reorders entries other than
\* reset() and cleanup().
CreationLogIsSavesCompleted ==
    /\ [](\A o \in ObjIds :
            /\ LogEntities(o) = savedSince[o]
            /\ \A j, k \in 1..Len(creationLog[o]) :
                    j # k => creationLog[o][j].entity # creationLog[o][k].entity
            /\ \A k \in 1..Len(creationLog[o]) :
                    /\ SaveCompleted(creationLog[o][k].entity)
                    /\ creationLog[o][k].model = entities[creationLog[o][k].entity].model)
    /\ [][\A o \in ObjIds : LogStep(o)]_vars
CreationLogWitness ==
    \E f, h \in Frames :
        /\ frames[f].parent = 0 /\ frames[h].parent = 0
        /\ frames[f].pc = "done" /\ frames[h].pc = "done"
        /\ frames[f].ctx # frames[h].ctx
        /\ Len(creationLog[1]) = 4
        /\ creationLog[1][1].entity \in CreatedBy(f) /\ creationLog[1][2].entity \in CreatedBy(h)
        /\ creationLog[1][3].entity \in CreatedBy(f) /\ creationLog[1][4].entity \in CreatedBy(h)

\* ------------------------------------------------------------- cleanup order
NextCleanup ==
    \/ Call(1, "PetFactory", <<>>, "resolve", TRUE, 0, Absent, "-")
    \/ Cleanup(1)
    \/ Run
    \/ \E f \in Frames : ResumeBelongsTo(f)
    \/ \E f \in Frames, strip \in BOOLEAN : SaveResolve(f, strip)
    \/ \E k \in 1..Len(cleanups) : RemoveResolve(k)
    \/ \E k \in 1..Len(cleanups) : RemoveReject(k)
SpecCleanup == Init /\ [][NextCleanup]_vars

EventsOf(k) == SelectSeq(removeEvents, LAMBDA ev : ev.task = k)
\* C6: a cleanup() call invokes delete for the entries the creation log held
\* when it was called, last entry first, one delete per entry, each delete
\* started only after the one before it completed; the step that completes
\* the cleanup leaves the log empty, and a cleanup() called on an empty log
\* completes at once without a delete.
CleanupDeletesInReverse ==
    /\ [](\A k \in 1..Len(cleanups) :
            LET t == cleanups[k]
                n == Len(t.snapshot)
                ev == EventsOf(k)
            IN  /\ Len(t.deleted) <= n
                /\ \A j \in 1..Len(t.deleted) : t.deleted[j] = t.snapshot[n + 1 - j].entity
                /\ t.pc = "done" => Len(t.deleted) = n
                /\ n = 0 => t.pc = "done"
                /\ Len(ev) = IF t.pc = "removing" THEN 2 * Len(t.deleted) - 1
                             ELSE 2 * Len(t.deleted)
                /\ \A i \in 1..Len(ev) :
                    /\ ev[i].phase = IF i % 2 = 1 THEN "start" ELSE "end"
                    /\ ev[i].entity = t.deleted[(i + 1) \div 2])
    /\ [](\A i \in 1..Len(removeEvents) :
            removeEvents[i].phase = IF i % 2 = 1 THEN "start" ELSE "end")
    /\ [][\A k \in 1..Len(cleanups') :
            (cleanups'[k].pc = "done" /\ (k > Len(cleanups) \/ cleanups[k].pc # "done"))
            => creationLog'[ctxs[cleanups'[k].ctx].creationLog] = <<>>]_vars
CleanupWitness ==
    /\ Len(cleanups) = 2
    /\ cleanups[1].pc = "done" /\ cleanups[2].pc = "done"
    /\ Len(cleanups[1].snapshot) = 2
    /\ entities[cleanups[1].snapshot[1].entity].model = "UserEntity"
    /\ Get(entities[cleanups[1].snapshot[2].entity].props, "user")
            = Ent(cleanups[1].snapshot[1].entity)
    /\ cleanups[1].deleted = <<cleanups[1].snapshot[2].entity, cleanups[1].snapshot[1].entity>>
    /\ cleanups[2].snapshot = <<>> /\ cleanups[2].deleted = <<>>
    /\ Len(removeEvents) = 4

\* ------------------------------------------------------- labelled references
NextRefs ==
    \/ Len(ctxs) = 1 /\ WithTransaction(1)
    \/ \E c \in Ctxs : Call(c, "UserFactory", <<>>, "resolve", FALSE, 0, Absent, "admin")
    \/ \E c \in Ctxs : Call(c, "UserFactory", <<"admin">>, "resolve", FALSE, 0, Absent, "admin")
    \/ \E c \in Ctxs, e \in 1..Len(entities) : SetRef(c, "admin", e)
    \/ \E c \in Ctxs, label \in Labels : Ref(c, label)
    \/ \E c \in Ctxs : ClearRefs(c)
    \/ \E c \in Ctxs : Reset(c)
    \/ Run
    \/ \E f \in Frames : AsCallback(f)
SpecRefs == Init /\ [][NextRefs]_vars

DirectStep(op) == directs' = directs + 1 /\ lastOp'.op = op
\* C5: setRef(label, e) and the .as(label) callback fail exactly when the label
\* is registered, and then leave the store as it was; ref(label) returns the
\* registered value; and a registered label keeps its value in every step
\* except a clearRefs() or reset(), which unregister every label.
LabelKeepsFirstEntity ==
    [][/\ \A o \in ObjIds, l \in Labels :
            refStore[o][l] # Absent =>
                \/ refStore'[o][l] = refStore[o][l]
                \/ refStore'[o] = EmptyRefs /\ (DirectStep("clearRefs") \/ DirectStep("reset"))
       /\ DirectStep("setRef") =>
            LET o == ctxs[lastOp'.ctx].refStore
            IN  /\ lastOp'.ok = (refStore[o][lastOp'.label] = Absent)
                /\ ~lastOp'.ok => refStore' = refStore
                /\ lastOp'.ok => refStore'[o][lastOp'.label] = Ent(lastOp'.entity)
       /\ DirectStep("ref") =>
            LET o == ctxs[lastOp'.ctx].refStore
            IN  /\ lastOp'.ok = (refStore[o][lastOp'.label] # Absent)
                /\ lastOp'.ret = refStore[o][lastOp'.label]
                /\ refStore' = refStore
       /\ \A f \in Frames :
            (frames[f].asState = "pending" /\ frames'[f].asState \in {"set", "rejected"}) =>
                LET o == ctxs[AsCtx(frames[f])].refStore
                IN  /\ (frames'[f].asState = "rejected") = (refStore[o][frames[f].as] # Absent)
                    /\ frames'[f].asState = "rejected" => refStore' = refStore
                    /\ frames'[f].asState = "set" =>
                            refStore'[o][frames[f].as] = Ent(frames[f].entity)
      ]_vars
LabelWitness ==
    \E f, g \in Frames :
        /\ frames[f].asState = "set" /\ frames[g].asState = "rejected"
        /\ frames[f].ctx # frames[g].ctx
        /\ lastOp.op = "setRef" /\ ~lastOp.ok
        /\ refStore[1]["admin"] = Ent(frames[f].entity)

\* ------------------------------------------------- transaction-scoped contexts
NextShare ==
    \/ \E c \in Ctxs : WithTransaction(c)
    \/ \E c \in Ctxs : Call(c, "UserFactory", <<>>, "resolve", TRUE, 0, Absent, "-")
    \/ \E c \in Ctxs, e \in 1..Len(entities) : SetRef(c, "admin", e)
    \/ \E c \in Ctxs : NextSequence(c, "UserFactory")
    \/ \E c \in Ctxs : GetFactory(c, "PetFactory")
    \/ \E c \in Ctxs : SetStore(c, "value")
    \/ \E c \in Ctxs : Reset(c)
    \/ Run
    \/ \E f \in Frames, strip \in BOOLEAN : SaveResolve(f, strip)
SpecShare == Init /\ [][NextShare]_vars

\* What context c observes of the five structures: the cached blueprint
\* instances, the sequence counters, the labels, the creation log, the user store.
View(c) ==
    [factoryCache |-> [F \in Factories |-> factoryCache[ctxs[c].factoryCache][F].inst],
     sequenceCounters |-> sequenceCounters[ctxs[c].sequenceCounters],
     refStore |-> refStore[ctxs[c].refStore],
     creationLog |-> creationLog[ctxs[c].creationLog],
     store |-> store[ctxs[c].store]]
\* C9: a context and the contexts derived from it by withTransaction (children,
\* siblings, children of children) observe the same blueprint cache, sequence
\* counters, label store, creation log and user store after every step.
TransactionContextsShare ==
    \A c, d \in Ctxs : View(c) = View(d)
TransactionShareWitness ==
    /\ Len(ctxs) = MaxCtx
    /\ \E F \in Factories : View(1).factoryCache[F] # 0
    /\ View(1).sequenceCounters["UserFactory"] >= 2
    /\ View(1).refStore["admin"] # Absent
    /\ View(1).creationLog # <<>>
    /\ View(1).store # <<>>
    /\ \A c \in Ctxs : c # 1 => ctxs[c].entityManager # ctxs[1].entityManager

\* ------------------------------------------------- blueprints kept by the caller
NextHandle ==
    \/ Len(ctxs) = 1 /\ WithTransaction(1)
    \/ \E c \in Ctxs, F \in {"UserFactory", "PetFactory"} : GetFactory(c, F)
    \/ \E h \in 1..Len(held) : CallHeld(h, TRUE)
    \/ Run
    \/ \E f \in Frames : ResumeBelongsTo(f)
    \/ \E f \in Frames, strip \in BOOLEAN : SaveResolve(f, strip)
SpecHandle == Init /\ [][NextHandle]_vars

\* C8 (as stated): every save made for a call on a blueprint obtained from
\* context C through C.getFactory, the saves of the belongs-to entities it
\* creates included, goes through C's persistence handle.
SavesThroughOwnHandle ==
    \A k \in 1..Len(saves) : saves[k].em = ctxs[saves[k].origin].entityManager

\* ------------------------------------------------- overrides of relation fields
PersistedOf(M) == {e \in 1..Len(entities) : entities[e].model = M /\ entities[e].persisted}
NextOverride ==
    \/ Call(1, "PetFactory", <<>>, "resolve", TRUE, 0, Absent, "-")
    \/ \E e \in PersistedOf("PetEntity") :
            Call(1, "CourseEnrollmentFactory", <<>>, "resolve", TRUE, 0,
                 Obj(<<Prop("pet", Ent(e))>>), "-")
    \/ \E e \in PersistedOf("UserEntity") :
            Call(1, "PetFactory", <<"withAdminOwner">>, "resolve", TRUE, 0,
                 Obj(<<Prop("user", Ent(e))>>), "-")
    \/ \E v \in {Null, Plain("x")} :
            Call(1, "PetFactory", <<>>, "resolve", FALSE, 0, Obj(<<Prop("user", v)>>), "-")
    \/ \E persist \in BOOLEAN :
            Call(1, "UserFactory", <<"withPets", "withProfile">>, "resolve", persist, 0,
                 Obj(<<Prop("pets", Null), Prop("profile", Plain("x"))>>), "-")
    \/ Run
    \/ \E f \in Frames : ResumeBelongsTo(f)
    \/ \E f \in Frames, strip \in BOOLEAN : SaveResolve(f, strip)
SpecOverride == Init /\ [][NextOverride]_vars

\* The keys of call f's overrides that replace a relationship descriptor of the
\* base definition or of an active variant by a value that is not a descriptor.
Declared(f) == mergeVariants(define(frames[f].factory), frames[f].activeVariants,
                             frames[f].factory).schema
ReplacedRelations(f) ==
    {k \in Keys(PropsOf(frames[f].overrides)) :
        /\ Get(Declared(f), k).kind \in {"belongsTo", "hasMany", "hasOne"}
        /\ ~isDescriptor(Get(PropsOf(frames[f].overrides), k))}
OverrideCreatesNothing ==
    \A f \in Frames : \A k \in ReplacedRelations(f) :
        ~\E g \in Frames : frames[g].parent = f /\ frames[g].slot = k
OverrideKeepsValue ==
    \A f \in Frames : \A k \in ReplacedRelations(f) :
        (frames[f].kind = "resolve" /\ frames[f].pc = "done") =>
            Get(entities[frames[f].entity].props, k) = Get(PropsOf(frames[f].overrides), k)
\* C4 (as stated): for a relation field whose descriptor the caller's override
\* replaced by a plain value, null or an entity, no invocation is made for the
\* field, and the entity the call returns holds the supplied value in it.
OverrideReplacesRelation == OverrideCreatesNothing /\ OverrideKeepsValue

\* ------------------------------------------------- build mode and persist mode
NextMode ==
    \/ \E persist \in BOOLEAN :
            Call(1, "UserFactory", <<"withPets", "withProfile">>, "resolve", persist, 0, Absent, "-")
    \/ \E persist \in BOOLEAN :
            Call(1, "PetFactory", <<>>, "resolve", persist, 0, Absent, "-")
    \/ Run
    \/ \E f \in Frames : ResumeBelongsTo(f)
    \/ \E f \in Frames : SaveResolve(f, FALSE)
    \/ \E f \in Frames : AllSettle(f)
    \/ \E f \in Frames : ResumeHasMany(f)
    \/ \E f \in Frames : ResumeHasOne(f)
SpecMode == Init /\ [][NextMode]_vars

RECURSIVE TopCall(_)
TopCall(f) == IF frames[f].parent = 0 THEN f ELSE TopCall(frames[f].parent)
SaveInvoked(e) == \E k \in 1..Len(saves) : saves[k].entity = e
Logged(e) ==
    \E o \in ObjIds : \E k \in 1..Len(creationLog[o]) : creationLog[o][k].entity = e
\* C11: every invocation made for a descriptor runs in the mode of the
\* top-level call.  No entity created under buildOne/build has save invoked on
\* it or is in a creation log; every entity created under persistOne/persist
\* has save invoked on it and is in the creation log once its save completed.
ModePassedDown ==
    /\ \A g \in Frames : frames[g].persist = frames[TopCall(g)].persist
    /\ \A e \in 1..Len(entities) :
        IF frames[TopCall(entities[e].frame)].persist
        THEN SaveInvoked(e) /\ (entities[e].persisted => Logged(e))
        ELSE ~SaveInvoked(e) /\ ~entities[e].persisted /\ ~Logged(e)
\* A build call and a persist call on the blueprint with the has-many and the
\* has-one variant, and on the one with the belongs-to field, all returned.
ModeWitness ==
    \E f, g \in Frames :
        /\ frames[f].parent = 0 /\ frames[g].parent = 0
        /\ frames[f].pc = "done" /\ frames[g].pc = "done"
        /\ frames[f].persist /\ ~frames[g].persist
        /\ frames[f].factory = "UserFactory" /\ frames[g].factory = "PetFactory"
        /\ Cardinality(CreatedBy(f)) = WithPetsCount + 2
        /\ Cardinality(CreatedBy(g)) = 2

\* ------------------------------------------------- batches with a belongs-to field
BatchCount == 2
\* The caller awaits a batch before it starts the next one.
Settled == \A f \in Frames : frames[f].pc \in {"done", "failed"}
NextBatch ==
    \/ \E persist \in BOOLEAN :
            Settled /\ Call(1, "PetFactory", <<>>, "all", persist, BatchCount, Absent, "-")
    \/ NextTempId(1)
    \/ Reset(1)
    \/ Run
    \/ \E f \in Frames : ResumeBelongsTo(f)
    \/ \E f \in Frames : SaveResolve(f, FALSE)
    \/ \E f \in Frames : SaveReject(f)
    \/ \E f \in Frames : AllSettle(f)
SpecBatch == Init /\ [][NextBatch]_vars

\* The entities a batch returned, in the order of the returned array.
Returned(a) == [k \in 1..Len(frames[a].kids) |-> frames[frames[a].kids[k]].entity]
RelatedOf(e, key) == Get(entities[e].props, key)
\* C12: a persist(n)/build(n) call on PetFactory, whose `user` field is a
\* belongsTo(UserFactory) descriptor with no entity supplied, never constructs
\* more than n users, and once it has returned it has constructed exactly n,
\* one in the `user` field of each returned pet, no two pets sharing the user
\* or the user's id.
BatchParentsDistinct ==
    \A a \in Frames :
        (frames[a].kind = "all" /\ frames[a].parent = 0 /\ frames[a].factory = "PetFactory")
        => LET users == OfModel(CreatedBy(a), "UserEntity")
               pets == Returned(a)
           IN  /\ Cardinality(users) <= frames[a].count
               /\ frames[a].pc = "done" =>
                    /\ Len(pets) = frames[a].count
                    /\ Cardinality(users) = frames[a].count
                    /\ \A k \in 1..Len(pets) :
                            /\ RelatedOf(pets[k], "user").kind = "entity"
                            /\ RelatedOf(pets[k], "user").id \in users
                    /\ \A j, k \in 1..Len(pets) : j # k =>
                            /\ RelatedOf(pets[j], "user") # RelatedOf(pets[k], "user")
                            /\ KeyOf(RelatedOf(pets[j], "user").id)
                                    # KeyOf(RelatedOf(pets[k], "user").id)
BatchWitness ==
    \E a, b \in Frames :
        /\ frames[a].kind = "all" /\ frames[a].pc = "done" /\ frames[a].persist
        /\ frames[b].kind = "all" /\ frames[b].pc = "done" /\ ~frames[b].persist
        /\ Len(Returned(a)) = BatchCount /\ Len(Returned(b)) = BatchCount

\* C13: once persistOne on UserFactory with the hasMany(PetFactory, k) variant
\* active has returned, the user's `pets` is an array of exactly k persisted
\* pets, each pet's `user` is the returned user and carries the user's
\* generated primary key; the user's save had completed, and the key was
\* there, before save was invoked on any of the pets.
HasManyChildrenKeyed ==
    \A f \in Frames :
        (frames[f].parent = 0 /\ frames[f].persist /\ frames[f].kind = "resolve"
            /\ frames[f].factory = "UserFactory" /\ Active(f, "withPets"))
        => /\ \A e \in OfModel(CreatedBy(f), "PetEntity") :
                SaveInvoked(e) =>
                    /\ RelatedOf(e, "user").kind = "entity"
                    /\ entities[RelatedOf(e, "user").id].persisted
                    /\ KeyOf(RelatedOf(e, "user").id).kind = "num"
           /\ frames[f].pc = "done" =>
                LET user == frames[f].entity
                    pets == RelatedOf(user, "pets")
                IN  /\ pets.kind = "list"
                    /\ Len(pets.ids) = WithPetsCount
                    /\ \A k \in 1..Len(pets.ids) :
                            /\ entities[pets.ids[k]].model = "PetEntity"
                            /\ entities[pets.ids[k]].persisted
                            /\ RelatedOf(pets.ids[k], "user") = Ent(user)
                            /\ KeyOf(RelatedOf(pets.ids[k], "user").id) = KeyOf(user)
                            /\ KeyOf(user).kind = "num" /\ KeyOf(user).n > 0
                    /\ \A j, k \in 1..Len(pets.ids) : j # k => pets.ids[j] # pets.ids[k]
HasManyWitness ==
    \E f \in Frames :
        /\ frames[f].parent = 0 /\ frames[f].persist /\ Active(f, "withPets")
        /\ frames[f].pc = "done"
        /\ Len(RelatedOf(frames[f].entity, "pets").ids) = WithPetsCount

\* ------------------------------------------------- batches and sequence values
BatchEmail == Obj(<<Prop("email", sequence("batch"))>>)
NextSeqBatch ==
    \/ \E persist \in BOOLEAN, overrides \in {Absent, BatchEmail} :
            Call(1, "UserFactory", <<>>, "all", persist, BatchCount, overrides, "-")
    \/ NextSequence(1, "UserFactory")
    \/ ResetSequences(1)
    \/ Run
    \/ \E f \in Frames : SaveResolve(f, FALSE)
    \/ \E f \in Frames : SaveReject(f)
    \/ \E f \in Frames : AllSettle(f)
SpecSeqBatch == Init /\ [][NextSeqBatch]_vars

UserBatch(a) ==
    frames[a].kind = "all" /\ frames[a].parent = 0 /\ frames[a].factory = "UserFactory"
\* The pipeline launched k-th by batch a, and the sequence value it took in phase 4.
Pipeline(a, k) == frames[frames[a].kids[k]]
Took(a, k) == Pipeline(a, k).pc # "start"
EmailOf(a, k) == Get(Pipeline(a, k).schema, "email")
Suspended(a, k) == Pipeline(a, k).pc = "saving"
\* C14 (as stated): all the sequence increments of a build(n)/persist(n) call
\* happen before any of its pipelines suspends: while a pipeline is suspended
\* at its save, all n pipelines have been launched and have taken their value.
IncrementsBeforeAnySuspends ==
    \A a \in Frames : UserBatch(a) =>
        ((\E k \in 1..Len(frames[a].kids) : Suspended(a, k))
            => /\ Len(frames[a].kids) = frames[a].count
               /\ \A k \in 1..Len(frames[a].kids) : Took(a, k))
\* C14 (amended): the pipelines of a build(n)/persist(n) call take their
\* sequence values in launch order, each the successor of the one before, and
\* all n have taken theirs whenever control is back with the event loop, so
\* before any save completes; the entity at index i of the returned array
\* carries the i-th of these values.
IncrementsInLaunchOrder ==
    \A a \in Frames : UserBatch(a) =>
        /\ Idle => /\ Len(frames[a].kids) = frames[a].count
                   /\ \A k \in 1..Len(frames[a].kids) : Took(a, k)
        /\ \A k \in 1..Len(frames[a].kids) : Took(a, k) =>
                /\ EmailOf(a, k).kind = "seqval"
                /\ EmailOf(a, k).n >= k
                /\ k > 1 => /\ Took(a, k - 1)
                            /\ EmailOf(a, k).tag = EmailOf(a, k - 1).tag
                            /\ EmailOf(a, k).n = EmailOf(a, k - 1).n + 1
        /\ frames[a].pc = "done" =>
                \A k \in 1..Len(frames[a].kids) :
                    RelatedOf(Returned(a)[k], "email") = EmailOf(a, k)
SeqBatchWitness ==
    \E a, b \in Frames :
        /\ UserBatch(a) /\ frames[a].persist /\ frames[a].pc = "done"
        /\ UserBatch(b) /\ b > a /\ frames[b].pc = "done"
        /\ EmailOf(b, 1).n > 1
        /\ entities[Returned(a)[1]].persisted
        /\ \E j, k \in 1..Len(saves) :
                j < k /\ saves[j].entity = Returned(a)[1] /\ saves[k].entity = Returned(a)[2]
                      /\ \E x, y \in 1..Len(savedSince[1]) :
                            x < y /\ savedSince[1][x] = saves[k].entity
                                  /\ savedSince[1][y] = saves[j].entity

\* ------------------------------------------------- labels resolved by descriptors
RefOverride(key, label) == Obj(<<Prop(key, ref(label))>>)
NextLabel ==
    \/ \E persist \in BOOLEAN :
            Call(1, "UserFactory", <<>>, "resolve", persist, 0, Absent, "admin")
    \/ Call(1, "PetFactory", <<>>, "resolve", TRUE, 0, Absent, "other")
    \/ \E persist \in BOOLEAN :
            Settled /\ Call(1, "PetFactory", <<>>, "resolve", persist, 0,
                            RefOverride("user", "admin"), "-")
    \/ \E persist \in BOOLEAN :
            Settled /\ Call(1, "CourseEnrollmentFactory", <<>>, "resolve", persist, 0,
                            RefOverride("pet", "other"), "-")
    \/ \E label \in Labels : Ref(1, label)
    \/ Run
    \/ \E f \in Frames : AsCallback(f)
    \/ \E f \in Frames : ResumeBelongsTo(f)
    \/ \E f \in Frames, strip \in BOOLEAN : SaveResolve(f, strip)
SpecLabel == Init /\ [][NextLabel]_vars

\* The entity that a call chained with .as(label) resolved with and registered.
Labelled(label) ==
    {frames[g].entity : g \in {x \in Frames : frames[x].as = label /\ frames[x].asState = "set"}}
RefKeys(f) ==
    {k \in Keys(PropsOf(frames[f].overrides)) : Get(PropsOf(frames[f].overrides), k).kind = "ref"}
RefKeeps(f) ==
    \A k \in RefKeys(f) :
        LET label == Get(PropsOf(frames[f].overrides), k).label
        IN  (frames[f].pc = "done" /\ Labelled(label) # {}) =>
                /\ RelatedOf(frames[f].entity, k).kind = "entity"
                /\ RelatedOf(frames[f].entity, k).id \in Labelled(label)
RefReturnsLabelled ==
    [][(DirectStep("ref") /\ Labelled(lastOp'.label) # {}) =>
            /\ lastOp'.ok /\ lastOp'.ret.kind = "entity"
            /\ Labelled(lastOp'.label) = {lastOp'.ret.id}]_vars
RefKeepsInBuildMode == \A f \in Frames : ~frames[f].persist => RefKeeps(f)
RefKeepsUnlessStripped ==
    \A f \in Frames : frames[f].factory # "CourseEnrollmentFactory" => RefKeeps(f)
\* C15 (as stated): once a call chained with .as(L) has resolved with entity E,
\* a build or persist call whose field is a ref(L) descriptor returns an entity
\* holding E itself in that field, and ctx.ref(L) returns E.
RefDescriptorKeepsInstance ==
    /\ RefReturnsLabelled
    /\ [](\A f \in Frames : RefKeeps(f))

\* ------------------------------------------------- labels that are not registered
NestedRef == Obj(<<Prop("user", belongsTo("UserFactory", RefOverride("firstName", "other"), <<>>))>>)
NextMissing ==
    \/ Call(1, "UserFactory", <<>>, "resolve", FALSE, 0, Absent, "admin")
    \/ \E persist \in BOOLEAN, label \in Labels :
            Call(1, "PetFactory", <<>>, "resolve", persist, 0, RefOverride("user", label), "-")
    \/ \E persist \in BOOLEAN :
            Call(1, "PetFactory", <<>>, "resolve", persist, 0, NestedRef, "-")
    \/ \E label \in Labels : Ref(1, label)
    \/ ClearRefs(1)
    \/ Run
    \/ \E f \in Frames : AsCallback(f)
    \/ \E f \in Frames : ResumeBelongsTo(f)
    \/ \E f \in Frames : SaveResolve(f, FALSE)
SpecMissing == Init /\ [][NextMissing]_vars

\* The schema of invocation f as it enters phase 4, and the labels of its ref
\* descriptors that the label store of its context does not hold.
Entering(f) ==
    applyOverrides(mergeVariants(define(frames[f].factory), frames[f].activeVariants,
                                 frames[f].factory).schema,
                   frames[f].overrides)
MissingLabels(f) ==
    {Entering(f)[i].value.label : i \in
        {j \in 1..Len(Entering(f)) :
            /\ Entering(f)[j].value.kind = "ref"
            /\ refStore[ctxs[frames[f].ctx].refStore][Entering(f)[j].value.label] = Absent}}
ThrewOnRef(f) == frames[f].pc = "failed" /\ frames[f].err = "ref" /\ frames[f].kids = <<>>
\* C16: an invocation whose schema holds a ref descriptor for a label that is
\* not registered fails in phase 4 with an error naming that label, having
\* made no nested call, constructed no entity, invoked no save and appended
\* nothing to the creation log, and it never does afterwards; with every ref
\* label registered it does not fail this way.  ctx.ref(label) fails, naming
\* the label, exactly when the label is not registered, and changes nothing.
UnregisteredRefFails ==
    /\ [](\A f \in Frames : ThrewOnRef(f) =>
            /\ frames[f].entity = 0
            /\ ~\E e \in 1..Len(entities) : entities[e].frame = f
            /\ ~\E g \in Frames : frames[g].parent = f)
    /\ [][/\ \A f \in Frames :
                (frames[f].kind = "resolve" /\ frames[f].pc = "start" /\ frames'[f].pc # "start") =>
                    IF MissingLabels(f) # {}
                    THEN /\ ThrewOnRef(f)'
                         /\ frames'[f].named \in MissingLabels(f)
                         /\ Len(frames') = Len(frames)
                         /\ entities' = entities /\ saves' = saves /\ creationLog' = creationLog
                    ELSE frames'[f].err # "ref"
          /\ DirectStep("ref") =>
                LET registered == refStore[ctxs[lastOp'.ctx].refStore][lastOp'.label] # Absent
                IN  /\ lastOp'.ok = registered
                    /\ ~registered => lastOp'.named = lastOp'.label
                    /\ refStore' = refStore /\ entities' = entities
                    /\ saves' = saves /\ creationLog' = creationLog
         ]_vars
MissingWitness ==
    \E f, g \in Frames :
        /\ frames[f].persist /\ ThrewOnRef(f) /\ frames[f].named = "admin"
        /\ frames[g].parent # 0 /\ ThrewOnRef(g) /\ frames[g].named = "other"
        /\ frames[frames[g].parent].pc = "failed"
        /\ lastOp.op = "ref" /\ ~lastOp.ok

\* C17: a cache entry, once made, keeps its instance in every step (reset()
\* included); getFactory(F) through context C returns the instance the cache
\* of C holds for F, the one any earlier getFactory(F) through a context with
\* the same cache returned, and leaves that instance bound to C.
CacheKeepsSingleton ==
    /\ [](\A h, k \in 1..Len(held) :
            (held[h].factory = held[k].factory
                /\ ctxs[held[h].from].factoryCache = ctxs[held[k].from].factoryCache)
            => held[h].inst = held[k].inst)
    /\ [][/\ \A o \in ObjIds, F \in Factories :
                factoryCache[o][F].inst # 0 =>
                    factoryCache'[o][F].inst = factoryCache[o][F].inst
          /\ Len(held') = Len(held) + 1 =>
                LET got == held'[Len(held')]
                    entry == factoryCache'[ctxs[got.from].factoryCache][got.factory]
                IN  /\ got.inst # 0
                    /\ entry.inst = got.inst
                    /\ entry.ctx = got.from
         ]_vars
SingletonWitness ==
    /\ Len(ctxs) = MaxCtx
    /\ \E h, k \in 1..Len(held) :
            /\ h < k /\ held[h].from # held[k].from /\ held[h].from # 1 /\ held[k].from # 1
            /\ held[h].inst = held[k].inst
            /\ factoryCache[ctxs[1].factoryCache][held[k].factory].ctx = held[k].from

\* ------------------------------------------------- reset()
NextReset ==
    \/ Len(ctxs) = 1 /\ WithTransaction(1)
    \/ \E c \in Ctxs : Call(c, "UserFactory", <<>>, "resolve", FALSE, 0, Absent, "admin")
    \/ \E c \in Ctxs : Call(c, "UserFactory", <<>>, "resolve", TRUE, 0, Absent, "-")
    \/ \E c \in Ctxs : NextTempId(c)
    \/ \E c \in Ctxs : SetStore(c, "value")
    \/ \E c \in Ctxs : Reset(c)
    \/ Run
    \/ \E f \in Frames : AsCallback(f)
    \/ \E f \in Frames : SaveResolve(f, FALSE)
SpecReset == Init /\ [][NextReset]_vars

\* C18: reset() through context C leaves the sequence counters, the label
\* store and the creation log of C empty and C's temp-id counter at -1, so
\* that the next nextSequence returns 1 for every blueprint, ref fails for
\* every label and the next temp id of C is -1; it invokes no save and no
\* delete and leaves the blueprint cache, the user store, the persistence
\* handles and everything else of the contexts as they were.
ResetClears ==
    [][DirectStep("reset") =>
        LET c == lastOp'.ctx
        IN  /\ sequenceCounters'[ctxs[c].sequenceCounters] = EmptyCounters
            /\ refStore'[ctxs[c].refStore] = EmptyRefs
            /\ creationLog'[ctxs[c].creationLog] = <<>>
            /\ ctxs'[c].tempIdCounter = -1
            /\ \A F \in Factories :
                    nextSequence(sequenceCounters'[ctxs'[c].sequenceCounters], F).ret = 1
            /\ \A l \in Labels : ~ctxRef(refStore'[ctxs'[c].refStore], l).ok
            /\ nextTempId(ctxs'[c].tempIdCounter).ret = -1
            /\ saves' = saves /\ removeEvents' = removeEvents /\ cleanups' = cleanups
            /\ factoryCache' = factoryCache /\ store' = store /\ nextInst' = nextInst
            /\ entities' = entities /\ frames' = frames
            /\ ctxs' = [ctxs EXCEPT ![c].tempIdCounter = -1]
    ]_vars
ResetWitness ==
    /\ lastOp.op = "reset" /\ lastOp.ctx = 2
    /\ creationLog[ctxs[2].creationLog] = <<>>
    /\ sequenceCounters[ctxs[2].sequenceCounters] = EmptyCounters
    /\ refStore[ctxs[2].refStore] = EmptyRefs
    /\ ctxs[2].tempIdCounter = -1
    /\ \E e \in 1..Len(entities) : entities[e].persisted
    /\ \E f \in Frames : frames[f].asState = "set" /\ frames[f].ctx = 2
    /\ factoryCache[ctxs[2].factoryCache]["UserFactory"].inst # 0

\* ------------------------------------------------- layers: definition, variants, overrides
UserVariantLists ==
    {<<>>, <<"admin">>, <<"admin", "withEmail">>, <<"withEmail", "admin">>, <<"withPets">>}
UserOverrides ==
    {Absent, Obj(<<Prop("email", Null)>>), Obj(<<Prop("pets", Null)>>), BatchEmail,
     Obj(<<Prop("email", Plain("x")), Prop("nickname", Plain("y"))>>)}
PetOverrides ==
    {Absent, Obj(<<Prop("user", Null)>>),
     Obj(<<Prop("user", belongsTo("UserFactory", Absent, <<"withEmail">>))>>)}
NextLayers ==
    \/ \E names \in UserVariantLists, overrides \in UserOverrides :
            Settled /\ Call(1, "UserFactory", names, "resolve", FALSE, 0, overrides, "-")
    \/ \E names \in {<<>>, <<"withAdminOwner">>}, overrides \in PetOverrides :
            Settled /\ Call(1, "PetFactory", names, "resolve", FALSE, 0, overrides, "-")
    \/ Run
    \/ \E f \in Frames : ResumeBelongsTo(f)
    \/ \E f \in Frames : AllSettle(f)
    \/ \E f \in Frames : ResumeHasMany(f)
SpecLayers == Init /\ [][NextLayers]_vars

\* The layers of invocation f that define key k, and the value of the topmost.
VariantLayer(f, i) == PropsOf(Read(variants(frames[f].factory), frames[f].activeVariants[i]))
VariantsDefining(f, k) ==
    {i \in 1..Len(frames[f].activeVariants) : Has(VariantLayer(f, i), k)}
LastDefining(f, k) ==
    CHOOSE i \in VariantsDefining(f, k) : \A j \in VariantsDefining(f, k) : j <= i
Layered(f, k) ==
    IF Has(PropsOf(frames[f].overrides), k) THEN Get(PropsOf(frames[f].overrides), k)
    ELSE IF VariantsDefining(f, k) # {} THEN Get(VariantLayer(f, LastDefining(f, k)), k)
    ELSE Get(define(frames[f].factory), k)
LayerKeys(f) ==
    Keys(define(frames[f].factory)) \cup Keys(PropsOf(frames[f].overrides))
        \cup UNION {Keys(VariantLayer(f, i)) : i \in 1..Len(frames[f].activeVariants)}
SequenceKeys(f) == {k \in LayerKeys(f) : Layered(f, k).kind = "sequence"}
RelationKeys(f) == {k \in LayerKeys(f) : Layered(f, k).kind \in {"belongsTo", "hasMany", "hasOne"}}
\* C19: the schema that enters phase 4 holds, for every key of any layer, the
\* caller's override if the overrides have the key (null included), else the
\* value of the last active variant that defines it, else the definition's;
\* phase 4 takes exactly one sequence value per sequence descriptor of that
\* schema, and the invocation makes nested calls only for the relationship
\* descriptors of that schema, on the blueprint the descriptor names.
LayersReplaceKeyByKey ==
    /\ [](\A f \in Frames : frames[f].kind = "resolve" =>
            /\ Keys(Entering(f)) = LayerKeys(f)
            /\ \A k \in LayerKeys(f) : Get(Entering(f), k) = Layered(f, k)
            /\ \A g \in Frames : frames[g].parent = f =>
                    /\ frames[g].slot \in RelationKeys(f)
                    /\ frames[g].factory = Layered(f, frames[g].slot).factoryRef
                    /\ \A h \in Frames : (frames[h].parent = f /\ frames[h].slot = frames[g].slot)
                            => h = g)
    /\ [][\A f \in Frames :
            (frames[f].kind = "resolve" /\ frames[f].pc = "start" /\ frames'[f].pc # "start") =>
                Len(seqTrace'[frames[f].factory])
                    = Len(seqTrace[frames[f].factory]) + Cardinality(SequenceKeys(f))
         ]_vars
LayersWitness ==
    \E f, g \in Frames :
        /\ frames[f].pc = "done" /\ frames[f].activeVariants = <<"admin", "withEmail">>
        /\ Has(PropsOf(frames[f].overrides), "pets")
        /\ seqTrace["UserFactory"] = <<>>
        /\ frames[g].pc = "done" /\ frames[g].activeVariants = <<"withAdminOwner">>
        /\ Get(PropsOf(frames[g].overrides), "user") = Null

\* ------------------------------------------------- copies made by variant()
VariantNames == {<<"admin">>, <<"withEmail">>, <<"admin", "withEmail">>}

NextVariant ==
    \/ GetFactory(1, "UserFactory")
    \/ \E h \in 1..Len(held), names \in VariantNames : Variant(h, names)
    \/ \E h \in 1..Len(held), persist \in BOOLEAN : CallHeld(h, persist)
    \/ Settled /\ Call(1, "PetFactory", <<"withAdminOwner">>, "resolve", FALSE, 0, Absent, "-")
    \/ Run
    \/ \E f \in Frames : ResumeBelongsTo(f)
    \/ \E f \in Frames : SaveResolve(f, FALSE)
SpecVariant == Init /\ [][NextVariant]_vars

\* C20: variant(names...) returns a new blueprint object whose active-variant
\* list is the receiver's list followed by names, in order, so chained calls
\* accumulate; the receiver keeps its list, as does every other blueprint and
\* the cache, so the list of a cached singleton is always empty and a build
\* called on the singleton runs with no active variant.
VariantCopies ==
    /\ [](\A o \in ObjIds, F \in Factories : factoryCache[o][F].activeVariants = <<>>)
    /\ [][\A h \in 1..Len(held), names \in VariantNames :
            Variant(h, names) =>
                /\ held'[Len(held')].activeVariants = Blueprint(h).activeVariants \o names
                /\ held'[Len(held')].inst \notin {Blueprint(k).inst : k \in 1..Len(held)}
                /\ \A k \in 1..Len(held) : Blueprint(k)' = Blueprint(k)
                /\ factoryCache' = factoryCache]_vars
    /\ [][\A h \in 1..Len(held), persist \in BOOLEAN :
            CallHeld(h, persist) /\ ~held[h].own =>
                /\ frames'[Len(frames')].activeVariants = <<>>
                /\ mergeVariants(define(held[h].factory), frames'[Len(frames')].activeVariants,
                                 held[h].factory).schema
                        = define(held[h].factory)]_vars

\* A copy of a copy holds both names in the order of the calls, and a build on
\* the singleton, made after a pipeline took an "admin" copy of it, ran with
\* no variant and gave a user whose role is the base one.
VariantWitness ==
    /\ \E h, k \in 1..Len(held) :
            /\ ~held[h].own /\ held[k].own
            /\ held[k].activeVariants = <<"withEmail", "admin">>
    /\ \E f, g \in Frames :
            /\ g < f
            /\ frames[g].parent # 0 /\ frames[g].factory = "UserFactory"
            /\ frames[g].activeVariants = <<"admin">>
            /\ frames[f].parent = 0 /\ frames[f].factory = "UserFactory"
            /\ frames[f].activeVariants = <<>> /\ frames[f].pc = "done"
            /\ Get(entities[frames[f].entity].props, "role") = Faker
            /\ Get(entities[frames[g].entity].props, "role") = Plain("admin")

\* ------------------------------------------------- sequence counter and entities built
\* C21 (as stated): every entity a blueprint builds advances the counter of that
\* blueprint by exactly one, so once the calls made on a fresh context have
\* completed, the counter of each blueprint equals the number of entities it built.
CounterCountsEntities ==
    Settled =>
        \A F \in Factories :
            sequenceCounters[ctxs[1].sequenceCounters][F]
                = Cardinality(OfModel(1..Len(entities), model(F)))

\* ------------------------------------------------- runSeeders
\* The seeders of the test suites, each run() a list of awaited statements:
\* `await this.factory(F)[.variant(...)].persistOne/persist(...)[.as(label)]`,
\* where the overrides may hold `this.ctx.ref(label)` under one key.
Statement(F, names, kind, count, overrides, refKey, refLabel, label) ==
    [factory |-> F, names |-> names, kind |-> kind, count |-> count, overrides |-> overrides,
     refKey |-> refKey, refLabel |-> refLabel, label |-> label]
AdminSeeder ==
    <<Statement("UserFactory", <<"admin">>, "resolve", 0, Absent, "-", "-", "admin")>>
TestSeeder ==
    <<Statement("UserFactory", <<>>, "resolve", 0,
                Obj(<<Prop("firstName", Plain("SeederUser"))>>), "-", "-", "other"),
      Statement("PetFactory", <<>>, "all", 2, Absent, "user", "other", "-")>>
DataSeeder ==
    <<Statement("PetFactory", <<>>, "resolve", 0, Absent, "user", "admin", "-")>>
run(SeederClass) ==
    CASE SeederClass = "AdminSeeder" -> AdminSeeder
      [] SeederClass = "TestSeeder" -> TestSeeder
      [] SeederClass = "DataSeeder" -> DataSeeder
SeederLists ==
    {<<"AdminSeeder", "TestSeeder">>, <<"AdminSeeder", "DataSeeder">>,
     <<"DataSeeder", "AdminSeeder">>, <<"TestSeeder", "DataSeeder">>}

\* runSeeders after `await seeder.run()` settled: the loop goes on to the next
\* seeder when run() fulfilled, and the rejection leaves the function otherwise.
runSeedersBugSwallowsRejection(fr, fulfilled) ==
    [fr EXCEPT !.pc = "run", !.i = fr.i + 1, !.step = 1]
runSeedersAwait(fr, fulfilled) ==
    IF fulfilled THEN [fr EXCEPT !.pc = "run", !.i = fr.i + 1, !.step = 1]
    ELSE [fr EXCEPT !.pc = "failed", !.err = "seeder"]

\* ctx.runSeeders(seeders) is called on context c.
RunSeeders(c, seeders) ==
    /\ Idle
    /\ calls < MaxCalls
    /\ Len(frames) < MaxFrames
    /\ frames' = Append(frames,
            [NewFrame("seeders", 0, "-", "-", <<>>, c, TRUE, Absent, 0, c, "-")
                EXCEPT !.pc = "run"]
            @@ [seeders |-> seeders, step |-> 1, launched |-> <<>>])
    /\ stack' = <<Len(frames) + 1>>
    /\ calls' = calls + 1
    /\ UNCHANGED <<ctxVars, entities, cleanups, held, directs, lastOp, ghostVars>>

\* The loop of runSeeders and the run() of the current seeder, up to the next await.
SeederStep(s) ==
    /\ Running(s)
    /\ frames[s].kind = "seeders" /\ frames[s].pc = "run"
    /\ LET fr == frames[s]
       IN  IF fr.i > Len(fr.seeders)
           THEN /\ Suspend([frames EXCEPT ![s] = [fr EXCEPT !.pc = "done"]])
                /\ UNCHANGED <<factoryCache, nextInst>>
           ELSE IF fr.step > Len(run(fr.seeders[fr.i]))
           THEN /\ Suspend([frames EXCEPT ![s] = [fr EXCEPT !.pc = "awaitRun"]])
                /\ UNCHANGED <<factoryCache, nextInst>>
           ELSE LET st == run(fr.seeders[fr.i])[fr.step]
                    r == IF st.refLabel = "-" THEN [ok |-> TRUE, value |-> Absent, named |-> "-"]
                         ELSE ctxRef(refStore[ctxs[fr.ctx].refStore], st.refLabel)
                    overrides == IF st.refLabel = "-" THEN st.overrides
                                 ELSE Obj(<<Prop(st.refKey, r.value)>>)
                    factory == withVariants(getFactory(factoryCache, nextInst, fr.ctx, st.factory),
                                            fr.ctx, st.factory, st.names)
                    kid == Len(frames) + 1
                IN  IF ~r.ok
                    THEN /\ Suspend([frames EXCEPT ![s] =
                                [fr EXCEPT !.pc = "awaitRun", !.err = "ref", !.named = r.named]])
                         /\ UNCHANGED <<factoryCache, nextInst>>
                    ELSE /\ Len(frames) < MaxFrames
                         /\ factoryCache' = factory.cache
                         /\ nextInst' = getFactoryInst(factoryCache, nextInst, fr.ctx, st.factory)
                         /\ frames' = Append(
                                [frames EXCEPT ![s] =
                                    [fr EXCEPT !.pc = "awaitCall", !.kids = <<kid>>,
                                               !.launched = Append(@, [seeder |-> fr.i, frame |-> kid])]],
                                NewFrame(st.kind, s, "-", st.factory, factory.factory.activeVariants,
                                         factory.factory.ctx, TRUE, overrides, st.count,
                                         fr.ctx, st.label))
                         /\ stack' = Append(stack, kid)
    /\ UNCHANGED <<ctxs, sequenceCounters, refStore, creationLog, store, entities,
                   cleanups, driverVars, ghostVars>>

\* An await of the seeder, or the `await seeder.run()` of runSeeders, settles.
SeederResume(s) ==
    /\ Idle
    /\ frames[s].kind = "seeders"
    /\ LET fr == frames[s]
       IN  \/ /\ fr.pc = "awaitCall"
              /\ LET kid == frames[fr.kids[1]]
                 IN  /\ kid.pc \in {"done", "failed"} /\ kid.asState # "pending"
                     /\ IF kid.pc = "done" /\ kid.asState \in {"-", "set"}
                        THEN /\ frames' = [frames EXCEPT ![s] =
                                    [fr EXCEPT !.pc = "run", !.step = fr.step + 1]]
                             /\ stack' = <<s>>
                        ELSE /\ frames' = [frames EXCEPT ![s] =
                                    [fr EXCEPT !.pc = "awaitRun", !.err = "call"]]
                             /\ UNCHANGED stack
           \/ /\ fr.pc = "awaitRun"
              /\ LET next == runSeedersAwait(fr, fr.err = "-")
                 IN  /\ frames' = [frames EXCEPT ![s] = next]
                     /\ stack' = IF next.pc = "run" THEN <<s>> ELSE <<>>
    /\ UNCHANGED <<ctxVars, entities, cleanups, driverVars, ghostVars>>

NextSeeders ==
    \/ WithTransaction(1)
    \/ \E c \in 1..Len(ctxs), seeders \in SeederLists : Settled /\ RunSeeders(c, seeders)
    \/ \E s \in Frames : SeederStep(s)
    \/ \E s \in Frames : SeederResume(s)
    \/ Run
    \/ \E f \in Frames : SaveResolve(f, FALSE)
    \/ \E f \in Frames : SaveReject(f)
    \/ \E f \in Frames : AllSettle(f)
    \/ \E f \in Frames : AsCallback(f)
SpecSeeders == Init /\ [][NextSeeders]_vars

SeederRuns == {s \in Frames : frames[s].kind = "seeders"}
\* The calls made so far by seeder number j of the runSeeders invocation s.
CallsOf(s, j) == {k \in 1..Len(frames[s].launched) : frames[s].launched[k].seeder = j}
Fulfilled(g) ==
    /\ frames[g].pc = "done" /\ frames[g].asState \in {"-", "set"}
    /\ \A h \in Frames : Under(h, g) => frames[h].pc = "done"
\* Seeder number j of s has run to the end of its run().
RanThrough(s, j) ==
    /\ Cardinality(CallsOf(s, j)) = Len(run(frames[s].seeders[j]))
    /\ \A k \in CallsOf(s, j) : Fulfilled(frames[s].launched[k].frame)
SeedersInOrder(s) ==
    LET fr == frames[s]
    IN  /\ fr.i \in 1..(Len(fr.seeders) + 1)
        /\ \A k \in 1..Len(fr.launched) :
                /\ fr.launched[k].seeder <= fr.i /\ fr.launched[k].seeder <= Len(fr.seeders)
                /\ \A m \in 1..(k - 1) :
                        /\ fr.launched[m].seeder <= fr.launched[k].seeder
                        /\ Fulfilled(fr.launched[m].frame)
        /\ \A j \in 1..(fr.i - 1) : RanThrough(s, j)
        /\ fr.pc = "done" => fr.i = Len(fr.seeders) + 1 /\ fr.err = "-"
        /\ fr.pc = "failed" => fr.i <= Len(fr.seeders) /\ ~RanThrough(s, fr.i)
        /\ fr.err # "-" => fr.pc \in {"awaitRun", "failed"}
SeedersShareContext(s) ==
    LET fr == frames[s]
        c == fr.ctx
    IN  \A k \in 1..Len(fr.launched) :
            LET g == fr.launched[k].frame
                st == run(fr.seeders[fr.launched[k].seeder])[
                            Cardinality({m \in CallsOf(s, fr.launched[k].seeder) : m <= k})]
            IN  /\ \A h \in Frames : Under(h, g) => frames[h].ctx = c
                /\ st.refLabel # "-" =>
                        /\ refStore[ctxs[c].refStore][st.refLabel] # Absent
                        /\ frames[g].overrides
                                = Obj(<<Prop(st.refKey, refStore[ctxs[c].refStore][st.refLabel])>>)
                /\ (frames[g].pc = "done" /\ frames[g].asState = "set") =>
                        refStore[ctxs[c].refStore][st.label] = Ent(frames[g].entity)
                /\ Fulfilled(g) =>
                        \A e \in CreatedBy(g) :
                            \E n \in 1..Len(creationLog[ctxs[c].creationLog]) :
                                creationLog[ctxs[c].creationLog][n].entity = e

\* C22: runSeeders runs the seeders in list order, makes no call of a seeder
\* before every call of the seeders before it has fulfilled, and binds them all
\* to the context it was called on: the labels a seeder reads are the ones
\* registered in that context, by an earlier seeder included, every user takes
\* the next value of the one counter, and the entities of a fulfilled call are
\* in that context's creation log.  When a run() rejects, runSeeders rejects,
\* stays rejected and no later seeder makes a call.
SeedersRunInOrder ==
    /\ [](\A s \in SeederRuns : SeedersInOrder(s) /\ SeedersShareContext(s))
    /\ [](\A n \in 1..Len(seqTrace["UserFactory"]) : seqTrace["UserFactory"][n] = n)
    /\ [][\A s \in SeederRuns :
            frames[s].pc \in {"failed", "done"} =>
                /\ frames'[s] = frames[s]
                /\ ~\E g \in Len(frames) + 1..Len(frames') : frames'[g].parent = s]_vars

\* A runSeeders call on a fresh context rejected at its first seeder, which read
\* a label nobody had registered, and the second seeder made no call; a later
\* runSeeders call, on a child context, ran both its seeders to the end.
SeedersWitness ==
    \E s, t \in SeederRuns :
        /\ s < t
        /\ frames[s].pc = "failed" /\ frames[s].seeders = <<"DataSeeder", "AdminSeeder">>
        /\ frames[s].launched = <<>> /\ frames[s].named = "admin"
        /\ frames[t].pc = "done" /\ frames[t].seeders = <<"AdminSeeder", "TestSeeder">>
        /\ frames[t].ctx = 2 /\ Len(frames[t].launched) = 3
        /\ Len(seqTrace["UserFactory"]) = 2

\* ------------------------------------------------- cleanup across child contexts
NextTxCleanup ==
    \/ \E c \in Ctxs : WithTransaction(c)
    \/ \E c \in Ctxs :
            Settled /\ NoCleanupRunning
                /\ Call(c, "PetFactory", <<>>, "resolve", TRUE, 0, Absent, "-")
    \/ \E c \in Ctxs : Settled /\ Cleanup(c)
    \/ Run
    \/ \E f \in Frames : ResumeBelongsTo(f)
    \/ \E f \in Frames : SaveResolve(f, FALSE)
    \/ \E k \in 1..Len(cleanups) : RemoveResolve(k)
    \/ \E k \in 1..Len(cleanups) : RemoveReject(k)
SpecTxCleanup == Init /\ [][NextTxCleanup]_vars

InSnapshot(k, e) == \E n \in 1..Len(cleanups[k].snapshot) : cleanups[k].snapshot[n].entity = e
RemovedBy(k, e) ==
    \E i \in 1..Len(removeEvents) :
        /\ removeEvents[i].task = k /\ removeEvents[i].entity = e
        /\ removeEvents[i].phase = "end"
\* C23: the entities persisted through a context and through the contexts made
\* from it by withTransaction are all in the one creation log, whichever handle
\* saved them; a cleanup() called on any of these contexts, the parent included,
\* takes them all, issues each delete through the handle of the context it was
\* called on, and when it completes has deleted every one of them.
CleanupCoversChildren ==
    /\ \A e \in 1..Len(entities) :
            entities[e].persisted =>
                \/ \E n \in 1..Len(creationLog[ctxs[1].creationLog]) :
                        creationLog[ctxs[1].creationLog][n].entity = e
                \/ \E k \in 1..Len(cleanups) : InSnapshot(k, e)
    /\ \A i \in 1..Len(removeEvents) :
            removeEvents[i].em = ctxs[cleanups[removeEvents[i].task].ctx].entityManager
    /\ \A k \in 1..Len(cleanups) :
            cleanups[k].pc = "done" =>
                \A n \in 1..Len(cleanups[k].snapshot) : RemovedBy(k, cleanups[k].snapshot[n].entity)

\* A cleanup() called on the parent context completed after deleting, through
\* the parent's handle, a pet and its user that a child context had saved
\* through the handle of its transaction.
TxCleanupWitness ==
    \E k \in 1..Len(cleanups) :
        /\ cleanups[k].ctx = 1 /\ cleanups[k].pc = "done" /\ Len(cleanups[k].snapshot) = 2
        /\ \A n \in 1..2 :
                /\ \E j \in 1..Len(saves) :
                        /\ saves[j].entity = cleanups[k].snapshot[n].entity
                        /\ saves[j].em # DsManager
                /\ \E i \in 1..Len(removeEvents) :
                        /\ removeEvents[i].task = k /\ removeEvents[i].em = DsManager
                        /\ removeEvents[i].entity = cleanups[k].snapshot[n].entity

\* ------------------------------------------------- undeclared variant in a descriptor
\* Calls whose overrides hold a relationship descriptor that names a variant
\* the related blueprint does not declare.
UndeclaredCalls ==
    {[factory |-> "UserFactory",
      overrides |-> Obj(<<Prop("pets", hasMany("PetFactory", WithPetsCount, Absent, <<"bogus">>))>>)],
     [factory |-> "UserFactory",
      overrides |-> Obj(<<Prop("profile", hasOne("ProfileFactory", Absent, <<"bogus">>))>>)],
     [factory |-> "PetFactory",
      overrides |-> Obj(<<Prop("user", belongsTo("UserFactory", Absent, <<"bogus">>))>>)],
     [factory |-> "CourseEnrollmentFactory",
      overrides |-> Obj(<<Prop("course", belongsTo("CourseFactory", Absent, <<"bogus">>))>>)]}
NextUndeclared ==
    \/ \E call \in UndeclaredCalls, persist \in BOOLEAN :
            Settled /\ Call(1, call.factory, <<>>, "resolve", persist, 0, call.overrides, "-")
    \/ Run
    \/ \E f \in Frames : ResumeBelongsTo(f)
    \/ \E f \in Frames : SaveResolve(f, FALSE)
    \/ \E f \in Frames : AllSettle(f)
    \/ \E f \in Frames : ResumeHasMany(f)
    \/ \E f \in Frames : ResumeHasOne(f)
SpecUndeclared == Init /\ [][NextUndeclared]_vars

CarriesUndeclared(f) ==
    \E i \in 1..Len(Entering(f)) :
        LET d == Entering(f)[i].value
        IN  /\ d.kind \in {"belongsTo", "hasMany", "hasOne"}
            /\ \E n \in 1..Len(d.variants) : d.variants[n] \notin Keys(variants(d.factoryRef))
\* C24 (as stated): a build/persist call whose schema holds a relationship
\* descriptor with an undeclared variant name has, when it rejects, constructed
\* no entity, invoked no save and appended nothing to the creation log.
UndeclaredFailsBeforeAnyEntity ==
    \A f \in Frames :
        (frames[f].parent = 0 /\ frames[f].kind = "resolve" /\ CarriesUndeclared(f)
            /\ frames[f].pc = "failed")
        => /\ CreatedBy(f) = {}
           /\ \A e \in CreatedBy(f) : ~SaveInvoked(e) /\ ~Logged(e)
\* What does hold: such a call never fulfils, and the invocation made for the
\* descriptor fails in its phase 2, before it constructs anything itself.
UndeclaredRejects ==
    \A f \in Frames :
        /\ (frames[f].kind = "resolve" /\ CarriesUndeclared(f)) => frames[f].pc # "done"
        /\ (frames[f].pc = "failed" /\ frames[f].err = "variant" /\ frames[f].kids = <<>>)
                => frames[f].entity = 0 /\ CreatedBy(f) = {}

\* ------------------------------------------------- a rejection inside a persist pipeline
NextFailure ==
    \/ Settled /\ Call(1, "UserFactory", <<"withPets", "withProfile">>, "resolve", TRUE, 0,
                       Absent, "-")
    \/ Settled /\ Call(1, "CourseEnrollmentFactory", <<>>, "resolve", TRUE, 0, Absent, "-")
    \/ Run
    \/ \E f \in Frames : ResumeBelongsTo(f)
    \/ \E f \in Frames : SaveResolve(f, FALSE)
    \/ \E f \in Frames : SaveReject(f)
    \/ \E f \in Frames : AllSettle(f)
    \/ \E f \in Frames : ResumeHasMany(f)
    \/ \E f \in Frames : ResumeHasOne(f)
SpecFailure == Init /\ [][NextFailure]_vars

Pipelines == {f \in Frames : frames[f].kind = "resolve"}
PastSave(f) == frames[f].pc \in {"p7m", "p7o", "awaitHM", "awaitHO", "done"}
ChildSlots(f) ==
    {frames[f].deferredHasMany[i].key : i \in 1..Len(frames[f].deferredHasMany)}
        \cup {frames[f].deferredHasOne[i].key : i \in 1..Len(frames[f].deferredHasOne)}
\* C25: in a persist pipeline an invocation whose save rejects fails with that
\* error, its entity is neither saved nor logged and no has-many/has-one child
\* is made for it; an invocation that awaits a failed one fails with the same
\* error; a failed invocation makes no further step, so a call under which an
\* invocation failed never fulfils and a phase after the save runs only on a
\* saved and logged entity; and no step takes an entity out of the creation log
\* or invokes a delete, so what was saved before the failure stays saved and logged.
RejectionPropagates ==
    /\ [](\A f \in Pipelines :
            /\ PastSave(f) => entities[frames[f].entity].persisted /\ Logged(frames[f].entity)
            /\ (\E g \in Frames : frames[g].parent = f /\ frames[g].slot \in ChildSlots(f))
                    => entities[frames[f].entity].persisted
            /\ (frames[f].pc = "failed" /\ frames[f].cause = f) =>
                    /\ frames[f].err = "save"
                    /\ ~entities[frames[f].entity].persisted /\ ~Logged(frames[f].entity)
                    /\ ~\E g \in Frames : frames[g].parent = f /\ frames[g].slot \in ChildSlots(f))
    /\ [](\A f \in Frames :
            /\ (frames[f].pc = "failed" /\ frames[f].cause # f) =>
                    /\ Under(frames[f].cause, f)
                    /\ frames[frames[f].cause].pc = "failed"
                    /\ frames[frames[f].cause].cause = frames[f].cause
                    /\ frames[f].err = frames[frames[f].cause].err
            /\ frames[f].pc = "done" => \A g \in Frames : Under(g, f) => frames[g].pc = "done"
            /\ (frames[f].pc \in {"awaitBT", "awaitHM", "awaitHO"}
                    /\ frames[frames[f].kids[1]].pc = "failed") => ~Running(f))
    /\ [](\A e \in 1..Len(entities) : entities[e].persisted <=> Logged(e))
    /\ [][/\ \A f \in Frames :
                frames[f].pc = "failed" =>
                    /\ frames'[f] = frames[f]
                    /\ ~\E g \in (Len(frames) + 1)..Len(frames') : frames'[g].parent = f
                    /\ frames[f].entity # 0 => entities'[frames[f].entity] = entities[frames[f].entity]
          /\ \A e \in 1..Len(entities) : entities[e].persisted => entities'[e].persisted
          /\ \A o \in ObjIds :
                /\ Len(creationLog'[o]) >= Len(creationLog[o])
                /\ SubSeq(creationLog'[o], 1, Len(creationLog[o])) = creationLog[o]
          /\ removeEvents' = <<>>]_vars

\* A persistOne with has-many pets and a has-one profile rejected after the
\* user and the first pet were saved and logged: the save of the second pet
\* rejected, and no profile was made.  An enrollment call rejected on the save
\* of its course, after the pet and the pet's user were saved, before the
\* enrollment was constructed.
FailureWitness ==
    \E f, h \in Pipelines :
        /\ frames[f].parent = 0 /\ frames[f].factory = "UserFactory" /\ frames[f].pc = "failed"
        /\ frames[f].cause # f /\ entities[frames[f].entity].persisted
        /\ Cardinality({e \in CreatedBy(f) : Logged(e)}) = 2
        /\ Cardinality(CreatedBy(f)) = 3
        /\ ~\E g \in Frames : frames[g].parent = f /\ frames[g].slot = "profile"
        /\ frames[h].parent = 0 /\ frames[h].factory = "CourseEnrollmentFactory"
        /\ frames[h].pc = "failed" /\ frames[h].entity = 0
        /\ frames[frames[h].cause].factory = "CourseFactory"
        /\ Cardinality({e \in CreatedBy(h) : Logged(e)}) = 2

\* ------------------------------------------------- order of the saves of one pipeline
NextOrder ==
    \/ \E persist \in BOOLEAN :
            Call(1, "CourseEnrollmentFactory", <<>>, "resolve", persist, 0, Absent, "-")
    \/ \E persist \in BOOLEAN :
            Call(1, "UserFactory", <<"withPets", "withProfile">>, "resolve", persist, 0,
                 Absent, "-")
    \/ Run
    \/ \E f \in Frames : ResumeBelongsTo(f)
    \/ \E f \in Frames : SaveResolve(f, FALSE)
    \/ \E f \in Frames : AllSettle(f)
    \/ \E f \in Frames : ResumeHasMany(f)
    \/ \E f \in Frames : ResumeHasOne(f)
SpecOrder == Init /\ [][NextOrder]_vars

\* The invocations made for the j-th deferred belongs-to field of f, and for
\* its has-many / has-one fields.
BelongsToKids(f, j) ==
    {g \in Frames : frames[g].parent = f /\ frames[g].slot = frames[f].deferredBelongsTo[j].key}
ChildKids(f) == {g \in Frames : frames[g].parent = f /\ frames[g].slot \in ChildSlots(f)}
RelatedSettled(g) ==
    /\ frames[g].pc = "done"
    /\ frames[g].persist => entities[frames[g].entity].persisted
HasIds(e) ==
    \A n \in 1..Len(primaryColumns(entities[e].model)) :
        NonNull(Get(entities[e].props, primaryColumns(entities[e].model)[n]))
\* C26: in one pipeline the related entity of a belongs-to field is resolved,
\* and in persist mode saved, before the invocation for the next belongs-to
\* field is made, and all of them before the owning entity is constructed and
\* its save invoked; an invocation for a has-many or has-one field is made only
\* when the save of the owning entity has completed (build mode: when its
\* primary keys hold temp ids).
SavesInOrder ==
    \A f \in Pipelines :
        /\ \A j \in 1..Len(frames[f].deferredBelongsTo) :
                /\ Cardinality(BelongsToKids(f, j)) <= 1
                /\ (BelongsToKids(f, j) # {} \/ frames[f].entity # 0) =>
                        \A m \in 1..(IF frames[f].entity # 0 THEN j ELSE j - 1) :
                            \A g \in BelongsToKids(f, m) : RelatedSettled(g)
                /\ frames[f].entity # 0 =>
                        /\ BelongsToKids(f, j) # {}
                        /\ frames[f].persist => \A g \in BelongsToKids(f, j) :
                                \E k, n \in 1..Len(saves) :
                                    /\ k < n /\ saves[k].entity = frames[g].entity
                                    /\ saves[n].entity = frames[f].entity
        /\ ChildKids(f) # {} =>
                /\ frames[f].entity # 0
                /\ HasIds(frames[f].entity)
                /\ frames[f].persist => entities[frames[f].entity].persisted
                /\ \A g \in ChildKids(f) : \A e \in CreatedBy(g) : e > frames[f].entity

\* An enrollment was persisted whose pet was saved before the invocation for
\* its course was made and both before its own save was invoked; a user was
\* persisted and another built with their pets and profile made afterwards.
OrderWitness ==
    /\ \E f \in Pipelines :
            /\ frames[f].factory = "CourseEnrollmentFactory" /\ frames[f].persist
            /\ frames[f].pc = "done" /\ frames[f].parent = 0
            /\ \E g \in BelongsToKids(f, 1), h \in BelongsToKids(f, 2) :
                    g < h /\ frames[g].entity < frames[h].entity
                          /\ frames[h].entity < frames[f].entity
    /\ \E f \in Pipelines :
            /\ frames[f].factory = "UserFactory" /\ frames[f].parent = 0
            /\ frames[f].pc = "done" /\ Cardinality(ChildKids(f)) = 2

\* ------------------------------------------------- belongsTo(F, x): existing entity or overrides
\* The second argument of belongsTo: nothing, null, overrides without or with
\* a key, an entity made earlier; for a type with a two-column key, one
\* column or both.
GivenUsers ==
    {Absent, Null, Obj(<<Prop("role", Plain("admin"))>>), Obj(<<Prop("id", Num(7))>>),
     Obj(<<Prop("id", Null), Prop("role", Plain("admin"))>>)}
        \cup {Ent(e) : e \in OfModel(1..Len(entities), "UserEntity")}
GivenEnrollments ==
    {Obj(<<Prop("petId", Num(7))>>), Obj(<<Prop("petId", Num(7)), Prop("courseId", Num(8))>>)}
NextGiven ==
    \/ \E persist \in BOOLEAN :
            Settled /\ Call(1, "UserFactory", <<>>, "resolve", persist, 0, Absent, "-")
    \/ \E persist \in BOOLEAN, x \in GivenUsers :
            Settled /\ Call(1, "PetFactory", <<>>, "resolve", persist, 0,
                            Obj(<<Prop("user", belongsTo("UserFactory", x, <<>>))>>), "-")
    \/ \E persist \in BOOLEAN, x \in GivenEnrollments :
            Settled /\ Call(1, "PetFactory", <<>>, "resolve", persist, 0,
                            Obj(<<Prop("user", belongsTo("CourseEnrollmentFactory", x, <<>>))>>), "-")
    \/ Run
    \/ \E f \in Frames : ResumeBelongsTo(f)
    \/ \E f \in Frames : SaveResolve(f, FALSE)
SpecGiven == Init /\ [][NextGiven]_vars

\* x counts as an existing entity of blueprint F.
Existing(F, x) ==
    /\ x.kind \notin {"absent", "null"}
    /\ \A n \in 1..Len(primaryColumns(model(F))) :
            Get(PropsOf(x), primaryColumns(model(F))[n]).kind \notin {"absent", "null"}
\* C27: when phase 5 takes the belongs-to field `key` with descriptor
\* belongsTo(F, x): if x is given and holds a non-null value under every
\* primary-key column of F's entity type, the field is set to x itself and the
\* step makes no invocation, entity, save or log entry; otherwise the step
\* makes exactly one invocation, of F's buildOne/persistOne in the mode of the
\* current call with x as its overrides, which constructs one entity of F's
\* type, and that entity is what the field is set to.
GivenEntityIsReused ==
    /\ [][\A f \in Frames :
            (frames[f].kind = "resolve" /\ frames[f].pc = "p5" /\ Running(f)
                /\ frames[f].i <= Len(frames[f].deferredBelongsTo))
            => LET key == frames[f].deferredBelongsTo[frames[f].i].key
                   d == frames[f].deferredBelongsTo[frames[f].i].descriptor
                   x == d.overridesOrEntity
               IN  IF Existing(d.factoryRef, x)
                   THEN /\ Len(frames') = Len(frames)
                        /\ Get(frames'[f].schema, key) = x
                        /\ frames'[f].pc = "p5" /\ frames'[f].i = frames[f].i + 1
                        /\ entities' = entities /\ saves' = saves /\ creationLog' = creationLog
                   ELSE /\ Len(frames') = Len(frames) + 1
                        /\ frames'[Len(frames')].parent = f
                        /\ frames'[Len(frames')].slot = key
                        /\ frames'[Len(frames')].kind = "resolve"
                        /\ frames'[Len(frames')].factory = d.factoryRef
                        /\ frames'[Len(frames')].overrides = x
                        /\ frames'[Len(frames')].persist = frames[f].persist
                        /\ frames'[f].pc = "awaitBT" /\ frames'[f].i = frames[f].i
                        /\ entities' = entities]_vars
    /\ [](\A f \in Pipelines :
            /\ Cardinality({e \in 1..Len(entities) : entities[e].frame = f}) <= 1
            /\ frames[f].pc = "done" =>
                    /\ entities[frames[f].entity].frame = f
                    /\ entities[frames[f].entity].model = model(frames[f].factory)
                    /\ frames[f].persist <=> entities[frames[f].entity].persisted
                    /\ \A j \in 1..Len(frames[f].deferredBelongsTo) :
                        LET key == frames[f].deferredBelongsTo[j].key
                            x == frames[f].deferredBelongsTo[j].descriptor.overridesOrEntity
                        IN  IF BelongsToKids(f, j) = {}
                            THEN Get(entities[frames[f].entity].props, key) = x
                            ELSE \A g \in BelongsToKids(f, j) :
                                    Get(entities[frames[f].entity].props, key) = Ent(frames[g].entity))

\* A pet was persisted with belongsTo(UserFactory, u), u a user persisted by
\* the call before: the pet holds u, and the call made no invocation, entity
\* or save for the field.
GivenWitness ==
    \E f, h \in Pipelines :
        /\ f < h
        /\ frames[f].factory = "UserFactory" /\ frames[f].pc = "done" /\ frames[f].persist
        /\ frames[h].factory = "PetFactory" /\ frames[h].pc = "done" /\ frames[h].persist
        /\ frames[h].deferredBelongsTo[1].descriptor.overridesOrEntity = Ent(frames[f].entity)
        /\ ~\E g \in Frames : frames[g].parent = h
        /\ Get(entities[frames[h].entity].props, "user") = Ent(frames[f].entity)
        /\ Len(entities) = 2 /\ Len(saves) = 2

\* ------------------------------------------------- foreign keys of a belongs-to field
EnrollmentOverrides ==
    {Absent, Obj(<<Prop("petId", Num(99)), Prop("courseId", Num(98))>>)}
        \cup {Obj(<<Prop("pet", belongsTo("PetFactory", Ent(e), <<>>))>>) :
                e \in OfModel(1..Len(entities), "PetEntity")}
NextForeignKey ==
    \/ \E persist \in BOOLEAN :
            Settled /\ Call(1, "PetFactory", <<>>, "resolve", persist, 0, Absent, "-")
    \/ \E persist \in BOOLEAN, overrides \in EnrollmentOverrides :
            Settled /\ Call(1, "CourseEnrollmentFactory", <<>>, "resolve", persist, 0,
                            overrides, "-")
    \/ Run
    \/ \E f \in Frames : ResumeBelongsTo(f)
    \/ \E f \in Frames, strip \in BOOLEAN : SaveResolve(f, strip)
SpecForeignKey == Init /\ [][NextForeignKey]_vars

\* The entity the j-th deferred belongs-to field of f was resolved to.
ResolvedTo(f, j) ==
    IF BelongsToKids(f, j) = {} THEN frames[f].deferredBelongsTo[j].descriptor.overridesOrEntity
    ELSE Ent(frames[CHOOSE g \in BelongsToKids(f, j) : TRUE].entity)
\* C28: from its construction on, in build mode and in persist mode, before,
\* during and after the save, the entity of an invocation holds under every
\* belongs-to field of its schema the related entity P the field was resolved
\* to (an existing one or the one the nested call made) and, for every join
\* column of that relation whose property is not the relation field itself,
\* P's value of the referenced column under the join column's property.
ForeignKeysFollowParent ==
    \A f \in Pipelines :
        frames[f].entity # 0 =>
            \A j \in 1..Len(frames[f].deferredBelongsTo) :
                LET key == frames[f].deferredBelongsTo[j].key
                    P == ResolvedTo(f, j)
                    own == entities[frames[f].entity].props
                    relation == findRelationWithPropertyPath(model(frames[f].factory), key)
                IN  /\ P.kind = "entity"
                    /\ Get(own, key) = P
                    /\ \A n \in 1..Len(relation.joinColumns) :
                            relation.joinColumns[n].propertyName # key =>
                                /\ Get(own, relation.joinColumns[n].propertyName)
                                        = Get(entities[P.id].props, relation.joinColumns[n].referencedColumn)
                                /\ NonNull(Get(own, relation.joinColumns[n].propertyName))

\* An enrollment was persisted with belongsTo(PetFactory, p), p a pet built by
\* the call before: it holds p and p's temp id as petId, a course the call
\* made and that course's id as courseId.
ForeignKeyWitness ==
    \E f, h \in Pipelines :
        /\ f < h /\ frames[f].parent = 0 /\ frames[h].parent = 0
        /\ frames[f].factory = "PetFactory" /\ ~frames[f].persist /\ frames[f].pc = "done"
        /\ frames[h].factory = "CourseEnrollmentFactory" /\ frames[h].persist
        /\ frames[h].pc = "done"
        /\ Get(entities[frames[h].entity].props, "pet") = Ent(frames[f].entity)
        /\ Get(entities[frames[h].entity].props, "petId") = KeyOf(frames[f].entity)
        /\ BelongsToKids(h, 1) = {} /\ BelongsToKids(h, 2) # {}
        /\ Get(entities[frames[h].entity].props, "courseId")
                = KeyOf(Get(entities[frames[h].entity].props, "course").id)

\* ------------------------------------------------- overrides of has-many / has-one children
\* Overrides with a has-many or has-one descriptor: without overrides of its
\* own, with a plain one, with one on the inverse field, and under a key that
\* is no relation of the entity type.
ChildDescriptors ==
    {Obj(<<Prop("pets", hasMany("PetFactory", WithPetsCount, Absent, <<>>))>>),
     Obj(<<Prop("pets", hasMany("PetFactory", WithPetsCount,
                                Obj(<<Prop("name", Plain("Buddy"))>>), <<>>))>>),
     Obj(<<Prop("pets", hasMany("PetFactory", WithPetsCount,
                                Obj(<<Prop("user", Null), Prop("name", Plain("Buddy"))>>), <<>>))>>),
     Obj(<<Prop("profile", hasOne("ProfileFactory", Obj(<<Prop("bio", Plain("x"))>>), <<>>))>>),
     Obj(<<Prop("profile", hasOne("ProfileFactory", Obj(<<Prop("user", Null)>>), <<>>))>>),
     Obj(<<Prop("buddies", hasMany("PetFactory", 1, Absent, <<>>))>>)}
NextChildren ==
    \/ \E persist \in BOOLEAN, overrides \in ChildDescriptors :
            Settled /\ Call(1, "UserFactory", <<>>, "resolve", persist, 0, overrides, "-")
    \/ Run
    \/ \E f \in Frames : ResumeBelongsTo(f)
    \/ \E f \in Frames : SaveResolve(f, FALSE)
    \/ \E f \in Frames : AllSettle(f)
    \/ \E f \in Frames : ResumeHasMany(f)
    \/ \E f \in Frames : ResumeHasOne(f)
SpecChildren == Init /\ [][NextChildren]_vars

\* The descriptor of a has-many / has-one field of f, by key.
ChildDescriptor(f, key) ==
    LET all == frames[f].deferredHasMany \o frames[f].deferredHasOne
    IN  all[CHOOSE i \in 1..Len(all) : all[i].key = key].descriptor
InverseFields(f, key) ==
    LET relation == findRelationWithPropertyPath(model(frames[f].factory), key)
    IN  IF relation.found /\ relation.inverseSidePropertyPath # "-"
        THEN {relation.inverseSidePropertyPath} ELSE {}
\* C29: the overrides of the call made for a has-many or has-one field have
\* exactly the keys of the descriptor's overrides and the inverse relation
\* field, if the relation has one; a key of the descriptor's overrides holds
\* the descriptor's value, the inverse field included, and the inverse field
\* holds the owning entity otherwise.  A has-many call makes count
\* invocations, all with these same overrides.
ChildOverridesLayered ==
    \A f \in Pipelines : \A g \in ChildKids(f) :
        LET d == ChildDescriptor(f, frames[g].slot)
            given == PropsOf(d.overrides)
            got == PropsOf(frames[g].overrides)
        IN  /\ frames[g].overrides.kind = "object"
            /\ Keys(got) = Keys(given) \cup InverseFields(f, frames[g].slot)
            /\ \A k \in Keys(got) :
                    Get(got, k) = IF k \in Keys(given) THEN Get(given, k)
                                  ELSE Ent(frames[f].entity)
            /\ frames[g].kind = "all" =>
                    /\ d.kind = "hasMany" /\ frames[g].count = d.count
                    /\ Len(frames[g].kids) <= d.count
                    /\ frames[g].pc \in {"awaitAll", "done", "failed"}
                            => Len(frames[g].kids) = d.count
                    /\ \A n \in 1..Len(frames[g].kids) :
                            /\ frames[frames[g].kids[n]].overrides = frames[g].overrides
                            /\ frames[frames[g].kids[n]].parent = g
            /\ frames[g].kind = "resolve" => d.kind = "hasOne"

\* A user was persisted with hasMany(PetFactory, n, {user: null, name: 'Buddy'}):
\* its pets are named Buddy and hold null, not the user, under `user`; and a
\* user was built with has-many under a key that is no relation, whose pets
\* each got a user of their own.
ChildrenWitness ==
    \E f, h \in Pipelines :
        /\ frames[f].parent = 0 /\ frames[f].pc = "done" /\ frames[f].persist
        /\ \E g \in ChildKids(f) :
                /\ frames[g].slot = "pets" /\ Len(frames[g].kids) = WithPetsCount
                /\ \A n \in 1..WithPetsCount :
                        LET pet == entities[frames[frames[g].kids[n]].entity].props
                        IN  Get(pet, "user") = Null /\ Get(pet, "name") = Plain("Buddy")
        /\ frames[h].parent = 0 /\ frames[h].pc = "done" /\ ~frames[h].persist
        /\ \E g \in ChildKids(h) :
                /\ frames[g].slot = "buddies" /\ frames[g].overrides = Obj(<<>>)
                /\ LET pet == entities[frames[frames[g].kids[1]].entity].props
                   IN  Get(pet, "user").kind = "entity" /\ Get(pet, "user") # Ent(frames[h].entity)

\* ------------------------------------------------- relation objects across em.save
\* The keys of the deferred belongs-to fields of f.
BelongsToKeys(f) ==
    {frames[f].deferredBelongsTo[j].key : j \in 1..Len(frames[f].deferredBelongsTo)}
\* C30: when em.save fulfils, whether or not it removed the relation objects
\* from the entity, the entity holds under every belongs-to field the very
\* related entity it held when save was called; and once persistOne has
\* returned, every belongs-to field still holds the related entity recorded
\* for it before the save.
RelationsSurviveSave ==
    /\ [][\A f \in Pipelines, strip \in BOOLEAN :
            SaveResolve(f, strip) =>
                \A key \in BelongsToKeys(f) :
                    /\ Get(entities[frames[f].entity].props, key).kind = "entity"
                    /\ Get(entities'[frames[f].entity].props, key)
                            = Get(entities[frames[f].entity].props, key)]_vars
    /\ [](\A f \in Pipelines :
            frames[f].persist /\ frames[f].pc = "done" =>
                /\ Keys(frames[f].relationSnapshot) = BelongsToKeys(f)
                /\ \A key \in BelongsToKeys(f) :
                        /\ Get(frames[f].relationSnapshot, key).kind = "entity"
                        /\ Get(entities[frames[f].entity].props, key)
                                = Get(frames[f].relationSnapshot, key))

\* persistOne on CourseEnrollmentFactory has returned an enrollment that holds
\* its pet and its course, two distinct persisted entities, although a save
\* of this very entity that strips the relations with a foreign-key property
\* of their own returns it without `pet` and without `course`.
RestoreWitness ==
    \E f \in Pipelines :
        /\ frames[f].factory = "CourseEnrollmentFactory" /\ frames[f].parent = 0
        /\ frames[f].persist /\ frames[f].pc = "done"
        /\ LET e == frames[f].entity
               stripped == save("CourseEnrollmentEntity", entities[e].props, e, TRUE)
           IN  /\ entities[e].persisted
               /\ ~Has(stripped, "pet") /\ ~Has(stripped, "course")
               /\ Get(entities[e].props, "pet").kind = "entity"
               /\ Get(entities[e].props, "course").kind = "entity"
               /\ entities[Get(entities[e].props, "pet").id].model = "PetEntity"
               /\ entities[Get(entities[e].props, "course").id].model = "CourseEntity"
               /\ entities[Get(entities[e].props, "course").id].persisted

\* ------------------------------------------------- entity types without metadata
\* Calls that meet an entity type the data source does not know, as the owner
\* (NoteFactory, with and without has-many / has-one fields) or as the related
\* type of a belongs-to field whose second argument carries an id; and calls
\* that meet a type whose lookup throws another error.
GivenNote == Obj(<<Prop("id", Num(7)), Prop("title", Plain("given"))>>)
UnknownCalls ==
    {[F |-> "NoteFactory", persist |-> FALSE, overrides |-> Absent],
     [F |-> "NoteFactory", persist |-> FALSE,
      overrides |-> Obj(<<Prop("pets", hasMany("PetFactory", 1, Absent, <<>>))>>)],
     [F |-> "NoteFactory", persist |-> FALSE,
      overrides |-> Obj(<<Prop("profile", hasOne("ProfileFactory", Absent, <<>>))>>)],
     [F |-> "UserFactory", persist |-> FALSE,
      overrides |-> Obj(<<Prop("note", belongsTo("NoteFactory", GivenNote, <<>>))>>)],
     [F |-> "LedgerFactory", persist |-> FALSE, overrides |-> Absent],
     [F |-> "LedgerFactory", persist |-> FALSE, overrides |-> Obj(<<Prop("user", Null)>>)],
     [F |-> "LedgerFactory", persist |-> TRUE,
      overrides |-> Obj(<<Prop("user", Null),
                          Prop("pets", hasMany("PetFactory", 1, Absent, <<>>))>>)],
     [F |-> "LedgerFactory", persist |-> TRUE,
      overrides |-> Obj(<<Prop("user", Null),
                          Prop("profile", hasOne("ProfileFactory", Absent, <<>>))>>)],
     [F |-> "UserFactory", persist |-> FALSE,
      overrides |-> Obj(<<Prop("ledger", belongsTo("LedgerFactory", GivenNote, <<>>))>>)]}
        \cup {[F |-> "LedgerFactory", persist |-> FALSE,
               overrides |-> Obj(<<Prop("user", belongsTo("UserFactory", Ent(e), <<>>))>>)] :
                    e \in OfModel(1..Len(entities), "UserEntity")}
NextUnknown ==
    \/ \E call \in UnknownCalls :
            Settled /\ Call(1, call.F, <<>>, "resolve", call.persist, 0, call.overrides, "-")
    \/ Run
    \/ \E f \in Frames : ResumeBelongsTo(f)
    \/ \E f \in Frames : SaveResolve(f, FALSE)
    \/ \E f \in Frames : AllSettle(f)
    \/ \E f \in Frames : ResumeHasMany(f)
    \/ \E f \in Frames : ResumeHasOne(f)
SpecUnknown == Init /\ [][NextUnknown]_vars

Unknown(F) == getMetadata(model(F)) = "notFound"
\* The lookups an invocation makes: its own type for foreign keys, temp ids
\* and inverse relations, the related type for a belongs-to second argument.
LooksUp(f) ==
    {model(frames[f].factory)}
        \cup {model(frames[f].deferredBelongsTo[j].descriptor.factoryRef) :
                j \in {i \in 1..Len(frames[f].deferredBelongsTo) :
                            Truthy(frames[f].deferredBelongsTo[i].descriptor.overridesOrEntity)}}
\* C31: an invocation fails only where a lookup threw an error other than
\* "metadata not found", or where it awaited such a failure; an invocation on
\* a type whose lookup throws that other error never returns an entity in
\* build mode.  The entity built for a type the data source does not know has
\* exactly the keys of define() and of the overrides (no foreign-key scalar,
\* no primary key) and took no temp id; the invocations for its has-many and
\* has-one fields get the descriptor's overrides alone; and a belongs-to
\* second argument for a related type the data source does not know is
\* passed on as overrides to a new invocation, however many ids it carries.
UnknownTypesDegrade ==
    \A f \in Pipelines :
        LET fr == frames[f]
        IN  /\ fr.pc = "failed" =>
                /\ fr.err = "metadata"
                /\ \E M \in LooksUp(fr.cause) : metadataThrows(M)
            /\ metadataThrows(model(fr.factory)) /\ ~fr.persist => fr.entity = 0 /\ fr.pc # "done"
            /\ Unknown(fr.factory) /\ fr.entity # 0 =>
                /\ Keys(entities[fr.entity].props) \ ChildSlots(f)
                        = (Keys(define(fr.factory)) \cup Keys(PropsOf(fr.overrides))) \ ChildSlots(f)
                /\ \A k \in 1..Len(tempTrace[fr.ctx]) : tempTrace[fr.ctx][k].entity # fr.entity
                /\ \A g \in ChildKids(f) :
                        frames[g].overrides
                            = Obj(PropsOf(ChildDescriptor(f, frames[g].slot).overrides))
            /\ \A j \in 1..Len(fr.deferredBelongsTo) :
                    LET d == fr.deferredBelongsTo[j].descriptor
                    IN  Unknown(d.factoryRef) /\ (fr.i > j \/ fr.pc \notin {"p5", "awaitBT"}) =>
                            /\ Cardinality(BelongsToKids(f, j)) = 1
                            /\ \A g \in BelongsToKids(f, j) :
                                    /\ frames[g].overrides = d.overridesOrEntity
                                    /\ fr.pc # "failed" =>
                                            Get(fr.schema, fr.deferredBelongsTo[j].key)
                                                = Ent(frames[g].entity)

\* After two calls: a note was built with hasMany(PetFactory, 1): it has no
\* id, the context's temp ids went to the pet and to the user the pet made
\* for itself; and a user was built with belongsTo(NoteFactory, {id: 7, ...}):
\* its note is a new entity that carries id 7.
UnknownWitness ==
    \E f, h \in Pipelines :
        /\ frames[f].parent = 0 /\ frames[f].factory = "NoteFactory" /\ frames[f].pc = "done"
        /\ ~Has(entities[frames[f].entity].props, "id")
        /\ \E g \in ChildKids(f) :
                /\ frames[g].overrides = Obj(<<>>) /\ frames[g].pc = "done"
                /\ LET pet == entities[frames[frames[g].kids[1]].entity].props
                   IN  /\ Get(pet, "user").kind = "entity"
                       /\ entities[Get(pet, "user").id].model = "UserEntity"
        /\ frames[h].parent = 0 /\ frames[h].factory = "UserFactory" /\ frames[h].pc = "done"
        /\ LET note == Get(entities[frames[h].entity].props, "note")
           IN  /\ note.kind = "entity" /\ entities[note.id].model = "NoteEntity"
               /\ Get(entities[note.id].props, "id") = Num(7)

\* A call on LedgerFactory was rejected with the lookup's error after the
\* user of its belongs-to field had been built.
UnknownRejects ==
    \E f \in Pipelines :
        /\ frames[f].parent = 0 /\ frames[f].factory = "LedgerFactory"
        /\ frames[f].pc = "failed" /\ frames[f].err = "metadata"
        /\ BelongsToKids(f, 1) # {}

\* ------------------------------------------------- primary keys of built entities
\* Overrides of buildOne on CourseEnrollmentFactory (key columns petId and
\* courseId) and on UserFactory (key column id): keys left to foreign-key
\* inference, relations switched off, keys supplied, keys supplied as null.
EnrollmentKeys ==
    {Absent,
     Obj(<<Prop("pet", Null), Prop("course", Null)>>),
     Obj(<<Prop("pet", Null)>>),
     Obj(<<Prop("petId", Num(5)), Prop("pet", Null), Prop("course", Null)>>),
     Obj(<<Prop("petId", Num(5)), Prop("courseId", Num(6)), Prop("pet", Null),
           Prop("course", Null)>>),
     Obj(<<Prop("petId", Num(5))>>)}
UserKeys == {Absent, Obj(<<Prop("id", Num(42))>>), Obj(<<Prop("id", Null)>>)}
NextKeys ==
    \/ \E overrides \in EnrollmentKeys :
            Settled /\ Call(1, "CourseEnrollmentFactory", <<>>, "resolve", FALSE, 0, overrides, "-")
    \/ \E overrides \in UserKeys, names \in {<<>>, <<"withPets">>} :
            Settled /\ Call(1, "UserFactory", names, "resolve", FALSE, 0, overrides, "-")
    \/ \E overrides \in EnrollmentKeys :
            Settled /\ Call(1, "CourseEnrollmentFactory", <<>>, "all", FALSE, BatchCount, overrides, "-")
    \/ Run
    \/ \E f \in Frames : ResumeBelongsTo(f)
    \/ \E f \in Frames : AllSettle(f)
    \/ \E f \in Frames : ResumeHasMany(f)
SpecKeys == Init /\ [][NextKeys]_vars

\* The temp ids the context handed out for entity e, in order.
TempIdsOf(c, e) == SelectSeq(tempTrace[c], LAMBDA t : t.entity = e)
\* The key columns of the invocation's entity type the schema left null.
OpenColumns(f) ==
    LET cols == primaryColumns(model(frames[f].factory))
    IN  {n \in 1..Len(cols) : ~NonNull(Get(frames[f].schema, cols[n]))}
\* C32: the entity of a build-mode invocation has, from its construction on,
\* a non-null value in every primary-key column of its type; a column the
\* schema had set (by an override or by foreign-key inference) holds the
\* schema's value; the context handed out for the entity exactly one temp id
\* per column the schema left null, in column order, pairwise distinct, and
\* each such column holds its own.
BuiltKeysAssigned ==
    \A f \in Pipelines :
        ~frames[f].persist /\ frames[f].entity # 0 =>
            LET e == frames[f].entity
                cols == primaryColumns(entities[e].model)
                ids == TempIdsOf(frames[f].ctx, e)
                open == OpenColumns(f)
                rank(n) == Cardinality({k \in open : k <= n})
            IN  /\ Len(ids) = Cardinality(open)
                /\ \A a, b \in 1..Len(ids) : a # b => ids[a].id # ids[b].id
                /\ \A n \in 1..Len(cols) :
                        /\ NonNull(Get(entities[e].props, cols[n]))
                        /\ n \notin open => Get(entities[e].props, cols[n]) = Get(frames[f].schema, cols[n])
                        /\ n \in open => Get(entities[e].props, cols[n]) = Num(ids[rank(n)].id)

\* Two built enrollments: one with both relations switched off, whose petId and
\* courseId are two different temp ids; one built with {petId: 5} whose petId
\* is its pet's id and whose courseId is its course's id, no temp id taken
\* for it.
KeysWitness ==
    \E f, h \in Pipelines :
        /\ frames[f].factory = "CourseEnrollmentFactory" /\ frames[f].pc = "done"
        /\ frames[f].deferredBelongsTo = <<>>
        /\ Cardinality(OpenColumns(f)) = 2
        /\ Get(entities[frames[f].entity].props, "petId")
                # Get(entities[frames[f].entity].props, "courseId")
        /\ frames[h].factory = "CourseEnrollmentFactory" /\ frames[h].pc = "done"
        /\ Get(PropsOf(frames[h].overrides), "petId") = Num(5)
        /\ Len(frames[h].deferredBelongsTo) = 2
        /\ OpenColumns(h) = {}
        /\ TempIdsOf(frames[h].ctx, frames[h].entity) = <<>>
        /\ Get(entities[frames[h].entity].props, "petId")
                = KeyOf(Get(entities[frames[h].entity].props, "pet").id)

\* ------------------------------------------------- creation-log order and references
\* persist(n) on PetFactory (every pet makes its user), persistOne on
\* UserFactory with has-many and has-one children and on
\* CourseEnrollmentFactory, the pipelines of a batch interleaving; cleanup()
\* once every call has settled.
NextLogOrder ==
    \/ Settled /\ NoCleanupRunning
        /\ Call(1, "PetFactory", <<>>, "all", TRUE, BatchCount, Absent, "-")
    \/ Settled /\ NoCleanupRunning
        /\ Call(1, "UserFactory", <<"withPets", "withProfile">>, "resolve", TRUE, 0, Absent, "-")
    \/ Settled /\ NoCleanupRunning
        /\ Call(1, "CourseEnrollmentFactory", <<>>, "resolve", TRUE, 0, Absent, "-")
    \/ Settled /\ Cleanup(1)
    \/ Run
    \/ \E f \in Frames : ResumeBelongsTo(f)
    \/ \E f \in Frames : SaveResolve(f, FALSE)
    \/ \E f \in Frames : AllSettle(f)
    \/ \E f \in Frames : ResumeHasMany(f)
    \/ \E f \in Frames : ResumeHasOne(f)
    \/ \E k \in 1..Len(cleanups) : RemoveResolve(k)
SpecLogOrder == Init /\ [][NextLogOrder]_vars

\* The invocation that awaits g: its caller, or the caller of its batch.
Awaiter(g) ==
    LET p == frames[g].parent
    IN  IF p = 0 THEN 0
        ELSE IF frames[p].kind = "resolve" THEN p
        ELSE frames[p].parent
ForBelongsTo(g) == Awaiter(g) # 0 /\ frames[g].slot \in BelongsToKeys(Awaiter(g))
ForChild(g) == Awaiter(g) # 0 /\ frames[g].slot \in ChildSlots(Awaiter(g))
Before(o, a, b) ==
    \E i, j \in 1..Len(creationLog[o]) :
        i < j /\ creationLog[o][i].entity = a /\ creationLog[o][j].entity = b
\* Entity a holds entity b under a relation whose join column a's type owns.
References(a, b) ==
    \E n \in 1..Len(relationProperties(entities[a].model)) :
        Get(entities[a].props, relationProperties(entities[a].model)[n]) = Ent(b)
DeleteInvoked(k, n) == cleanups[k].deleted[n]
\* C33: in every creation log, an entity made for a belongs-to field is logged
\* before the entity of the invocation that awaited it, and an entity made
\* for a has-many or has-one field after it; every entity a logged entity
\* references is in the same log before it.  A cleanup() therefore invokes
\* the delete of an entity only after the delete of every saved entity that
\* references it has completed.
LogOrderFollowsReferences ==
    /\ \A o \in ObjIds :
        /\ \A g \in Pipelines :
            LET f == Awaiter(g)
                InLog(e) == \E i \in 1..Len(creationLog[o]) : creationLog[o][i].entity = e
            IN  /\ ForBelongsTo(g) /\ frames[f].entity # 0 /\ InLog(frames[f].entity)
                    => Before(o, frames[g].entity, frames[f].entity)
                /\ ForChild(g) /\ frames[g].entity # 0 /\ InLog(frames[g].entity)
                    => Before(o, frames[f].entity, frames[g].entity)
        /\ \A j \in 1..Len(creationLog[o]) : \A b \in 1..Len(entities) :
                References(creationLog[o][j].entity, b) => Before(o, b, creationLog[o][j].entity)
    /\ \A k \in 1..Len(cleanups) : \A n \in 1..Len(cleanups[k].deleted) :
            \A a \in 1..Len(entities) :
                entities[a].persisted /\ References(a, DeleteInvoked(k, n)) =>
                    \E m \in 1..(n - 1) : DeleteInvoked(k, m) = a /\ RemovedBy(k, a)

\* persist(2) on PetFactory ran with its two pipelines interleaved: the log
\* is user, user, pet, pet; the cleanup deleted the two pets and then the
\* two users.
LogOrderWitness ==
    \E k \in 1..Len(cleanups) :
        LET t == cleanups[k]
        IN  /\ t.pc = "done" /\ Len(t.snapshot) = 4
            /\ entities[t.snapshot[1].entity].model = "UserEntity"
            /\ entities[t.snapshot[2].entity].model = "UserEntity"
            /\ entities[t.snapshot[3].entity].model = "PetEntity"
            /\ entities[t.snapshot[4].entity].model = "PetEntity"
            /\ Len(t.deleted) = 4
            /\ entities[t.deleted[1]].model = "PetEntity"
            /\ entities[t.deleted[4]].model = "UserEntity"
            /\ References(t.deleted[1], t.deleted[3]) \/ References(t.deleted[1], t.deleted[4])

\* ------------------------------------------------- cleanup() while a persist call runs
\* persistOne on PetFactory and cleanup() called without awaiting one another.
NextRace ==
    \/ Call(1, "PetFactory", <<>>, "resolve", TRUE, 0, Absent, "-")
    \/ Cleanup(1)
    \/ Reset(1)
    \/ Run
    \/ \E f \in Frames : ResumeBelongsTo(f)
    \/ \E f \in Frames : SaveResolve(f, FALSE)
    \/ \E k \in 1..Len(cleanups) : RemoveResolve(k)
SpecRace == Init /\ [][NextRace]_vars

RemoveInvoked(e) ==
    \E i \in 1..Len(removeEvents) : removeEvents[i].entity = e /\ removeEvents[i].phase = "start"
\* C34 (as stated): a step that takes an entry out of a creation log is a
\* reset(), or delete has been invoked for the entry's entity.
NoEntryDroppedUndeleted ==
    [][\A o \in ObjIds : \A i \in 1..Len(creationLog[o]) :
            (\A j \in 1..Len(creationLog'[o]) : creationLog'[o][j] # creationLog[o][i])
                => \/ \E c \in Ctxs : Reset(c)
                   \/ RemoveInvoked(creationLog[o][i].entity)]_vars
\* The entries the log held when cleanup() was called are all deleted by the
\* time it completes.
SnapshotEntriesDeleted ==
    \A k \in 1..Len(cleanups) :
        cleanups[k].pc = "done" =>
            \A n \in 1..Len(cleanups[k].snapshot) : RemovedBy(k, cleanups[k].snapshot[n].entity)

\* ------------------------------------------------- a batch after its promise settled
\* persist(n) and build(n) on PetFactory, every save free to reject.
NextBatchFailure ==
    \/ \E persist \in BOOLEAN :
            Settled /\ Call(1, "PetFactory", <<>>, "all", persist, BatchCount, Absent, "-")
    \/ Run
    \/ \E f \in Frames : ResumeBelongsTo(f)
    \/ \E f \in Frames : SaveResolve(f, FALSE)
    \/ \E f \in Frames : SaveReject(f)
    \/ \E f \in Frames : AllSettle(f)
SpecBatchFailure == Init /\ [][NextBatchFailure]_vars

Batches == {a \in Frames : frames[a].kind = "all" /\ frames[a].parent = 0}
\* C35 (as stated): once the promise of a persist(n)/build(n) call has
\* settled, no step invokes save on an entity made under the call and no step
\* appends such an entity to a creation log.
NoWorkAfterBatchSettled ==
    [][\A a \in Batches :
            frames[a].pc \in {"done", "failed"} =>
                /\ \A i \in (Len(saves) + 1)..Len(saves') :
                        ~Under(entities'[saves'[i].entity].frame, a)
                /\ \A o \in ObjIds :
                        \A j \in (Len(creationLog[o]) + 1)..Len(creationLog'[o]) :
                            ~Under(entities[creationLog'[o][j].entity].frame, a)]_vars
\* A fulfilled batch has no invocation still running under it; a rejected
\* batch has a failed invocation under it.
FulfilledBatchIsQuiet ==
    \A a \in Batches :
        /\ frames[a].pc = "done" =>
                \A g \in Frames : Under(g, a) => frames[g].pc = "done"
        /\ frames[a].pc = "failed" =>
                \E k \in 1..Len(frames[a].kids) : frames[frames[a].kids[k]].pc = "failed"

\* ------------------------------------------------- a delete that rejects
\* persistOne on PetFactory, then cleanup() with every delete free to reject,
\* and cleanup() again after a failed one.
NextCleanupFailure ==
    \/ Settled /\ NoCleanupRunning
        /\ Call(1, "PetFactory", <<>>, "resolve", TRUE, 0, Absent, "-")
    \/ Settled /\ Cleanup(1)
    \/ Run
    \/ \E f \in Frames : ResumeBelongsTo(f)
    \/ \E f \in Frames : SaveResolve(f, FALSE)
    \/ \E k \in 1..Len(cleanups) : RemoveResolve(k)
    \/ \E k \in 1..Len(cleanups) : RemoveReject(k)
SpecCleanupFailure == Init /\ [][NextCleanupFailure]_vars

LogOf(k) == creationLog[ctxs[cleanups[k].ctx].creationLog]
\* C36: the step in which a delete of cleanup() rejects leaves the creation
\* log as it was when cleanup() was called and starts no delete; the rejected
\* cleanup never starts another delete and never touches the log again.  A
\* step that empties a non-empty log completes a cleanup() whose deletes, one
\* per entry of the log, have all completed without a rejection.
RejectedDeleteKeepsLog ==
    /\ [][\A k \in 1..Len(cleanups) :
            /\ cleanups[k].pc = "removing" /\ cleanups'[k].pc = "failed" =>
                    /\ LogOf(k)' = cleanups[k].snapshot
                    /\ Len(removeEvents') = Len(removeEvents) + 1
                    /\ removeEvents'[Len(removeEvents')].phase = "end"
                    /\ cleanups'[k].deleted = cleanups[k].deleted
            /\ cleanups[k].pc = "failed" =>
                    /\ cleanups'[k] = cleanups[k]
                    /\ EventsOf(k)' = EventsOf(k)]_vars
    /\ [][\A o \in ObjIds :
            creationLog[o] # <<>> /\ creationLog'[o] = <<>> =>
                \E k \in 1..Len(cleanups) :
                    /\ cleanups[k].pc = "removing" /\ cleanups'[k].pc = "done"
                    /\ ctxs[cleanups[k].ctx].creationLog = o
                    /\ Len(cleanups'[k].deleted) = Len(creationLog[o])
                    /\ \A n \in 1..Len(creationLog[o]) :
                            \E i \in 1..Len(removeEvents') :
                                /\ removeEvents'[i].task = k
                                /\ removeEvents'[i].entity = creationLog[o][n].entity
                                /\ removeEvents'[i].phase = "end"]_vars

\* The first cleanup() deleted the pet, its delete of the user rejected and it
\* failed with both entries in the log; the second cleanup() started with the
\* same two entries.
CleanupFailureWitness ==
    /\ Len(cleanups) = 2
    /\ cleanups[1].pc = "failed" /\ Len(cleanups[1].snapshot) = 2
    /\ Len(cleanups[1].deleted) = 2
    /\ entities[cleanups[1].deleted[2]].model = "UserEntity"
    /\ cleanups[2].snapshot = cleanups[1].snapshot
    /\ cleanups[2].pc = "done"

\* ------------------------------------------------- temp ids across withTransaction
\* buildOne on UserFactory and PetFactory through a context and through a
\* context made from it by withTransaction; reset() is never called.
NextTxBuild ==
    \/ Len(ctxs) < 2 /\ WithTransaction(1)
    \/ \E c \in Ctxs, F \in {"UserFactory", "PetFactory"} :
            Settled /\ Call(c, F, <<>>, "resolve", FALSE, 0, Absent, "-")
    \/ Run
    \/ \E f \in Frames : ResumeBelongsTo(f)
SpecTxBuild == Init /\ [][NextTxBuild]_vars

\* C37 (as stated): the temp ids handed to built entities by a context and
\* by the contexts made from it by withTransaction are pairwise distinct.
TempIdsDistinctAcrossContexts ==
    \A c1, c2 \in Ctxs :
        \A k1 \in 1..Len(tempTrace[c1]), k2 \in 1..Len(tempTrace[c2]) :
            (c1 # c2 \/ k1 # k2) => tempTrace[c1][k1].id # tempTrace[c2][k2].id
\* The temp ids one context object handed out are pairwise distinct, and two
\* entities built through the same context object carry different keys.
TempIdsDistinctPerContext ==
    \A c \in Ctxs :
        /\ \A k1, k2 \in 1..Len(tempTrace[c]) :
                k1 # k2 => tempTrace[c][k1].id # tempTrace[c][k2].id
        /\ \A e1, e2 \in Built(c) : e1 # e2 => KeyOf(e1) # KeyOf(e2)

\* ------------------------------------------------- a mutual pair without inverse relation
\* buildOne on the pair whose two define() name each other, the owner's
\* type unknown to the data source, and buildOne on UserFactory with a
\* has-many of PetFactory under a key that is no relation of UserEntity.
\* The run of a call is followed for MaxFrames invocations.
NextNoInverse ==
    \/ \E F \in {"OwnerFactory", "OwnedPetFactory"} :
            Settled /\ Call(1, F, <<>>, "resolve", FALSE, 0, Absent, "-")
    \/ \E count \in 1..WithPetsCount :
            Settled /\ Call(1, "UserFactory", <<>>, "resolve", FALSE, 0,
                            Obj(<<Prop("buddies", hasMany("PetFactory", count, Absent, <<>>))>>), "-")
    \/ Len(frames) < MaxFrames /\ Run
    \/ \E f \in Frames : ResumeBelongsTo(f)
    \/ \E f \in Frames : AllSettle(f)
    \/ \E f \in Frames : ResumeHasMany(f)
SpecNoInverse == Init /\ [][NextNoInverse]_vars

\* Invocation g runs for invocation f: f awaits g, directly or through others.
RunsFor(g, f) == g # f /\ Under(g, f)
SameCall(g, f) ==
    /\ frames[g].kind = "resolve" /\ frames[f].kind = "resolve"
    /\ frames[g].factory = frames[f].factory
    /\ frames[g].activeVariants = frames[f].activeVariants
    /\ frames[g].overrides = frames[f].overrides
    /\ frames[g].persist = frames[f].persist
\* C38 (as stated): a buildOne call on a blueprint of a mutual has-many /
\* belongs-to pair completes also when no inverse relation is found.  What
\* resolve() calls is determined by the blueprint, its variants, the
\* overrides and the mode, so a call that completes never makes, for itself,
\* an invocation equal to it in all four; and with has-many count k it makes
\* no more than the owner, the batch, k children and the k parents the
\* children make for themselves.
NoInverseCallCompletes ==
    \A f \in Pipelines :
        frames[f].parent = 0 /\ frames[f].deferredHasMany # <<>> =>
            /\ \A g \in Frames : RunsFor(g, f) => ~SameCall(g, f)
            /\ Cardinality({g \in Frames : Under(g, f)})
                    <= 2 + 2 * frames[f].deferredHasMany[1].descriptor.count
\* With has-many under an override of the call, the invocations made for the
\* children's belongs-to field use the blueprint without that override and
\* have no has-many field: the call makes no more invocations than the
\* owner, the batch, the k children and their k parents.
OverridePairCompletes ==
    \A f \in Pipelines :
        frames[f].parent = 0 /\ frames[f].factory = "UserFactory" =>
            /\ \A g \in Frames : RunsFor(g, f) => ~SameCall(g, f)
            /\ \A g \in Frames : RunsFor(g, f) /\ frames[g].factory = "UserFactory" =>
                    frames[g].deferredHasMany = <<>>
            /\ frames[f].deferredHasMany # <<>> =>
                    Cardinality({g \in Frames : Under(g, f)})
                        <= 2 + 2 * frames[f].deferredHasMany[1].descriptor.count
\* Without an inverse the owned pet of an owner makes an owner of its own,
\* by the same define(), with the same (absent) overrides.
NoInverseRecurs ==
    \A g \in Pipelines :
        frames[g].factory = "OwnedPetFactory" /\ frames[g].pc \notin {"start", "failed"} =>
            /\ frames[g].overrides \in {Absent, Obj(<<>>)}
            /\ Len(frames[g].deferredBelongsTo) = 1
            /\ frames[g].deferredBelongsTo[1].descriptor = belongsTo("OwnerFactory", Absent, <<>>)

\* ------------------------------------------------- a related entity given as a plain value
\* Overrides of CourseEnrollmentFactory that give the pet as a plain value
\* of the relation field, the course left to the blueprint's descriptor.
PlainParents ==
    {Obj(<<Prop("pet", Ent(e))>>) : e \in OfModel(1..Len(entities), "PetEntity")}
NextPlainParent ==
    \/ \E persist \in BOOLEAN :
            Settled /\ Call(1, "PetFactory", <<>>, "resolve", persist, 0, Absent, "-")
    \/ \E persist \in BOOLEAN :
            Settled /\ Call(1, "UserFactory", <<"withPets">>, "resolve", persist, 0, Absent, "-")
    \/ \E persist \in BOOLEAN, overrides \in PlainParents :
            Settled /\ Call(1, "CourseEnrollmentFactory", <<>>, "resolve", persist, 0,
                            overrides, "-")
    \/ Run
    \/ \E f \in Frames : ResumeBelongsTo(f)
    \/ \E f \in Frames : SaveResolve(f, FALSE)
    \/ \E f \in Frames : AllSettle(f)
    \/ \E f \in Frames : ResumeHasMany(f)
SpecPlainParent == Init /\ [][NextPlainParent]_vars

\* Entity e holds, for every relation of its type under which it holds an
\* entity P, P's referenced key under each join column that is a property
\* of its own.
ScalarsFollow(e) ==
    \A n \in 1..Len(relationProperties(entities[e].model)) :
        LET r == relationProperties(entities[e].model)[n]
            P == Get(entities[e].props, r)
            jcs == findRelationWithPropertyPath(entities[e].model, r).joinColumns
        IN  P.kind = "entity" =>
                \A j \in 1..Len(jcs) :
                    jcs[j].propertyName # r =>
                        Get(entities[e].props, jcs[j].propertyName)
                            = Get(entities[P.id].props, jcs[j].referencedColumn)
\* C39 (as stated): every entity a build-mode invocation has returned holds,
\* for each belongs-to relation field that holds an entity P, P's primary key
\* in the foreign-key scalars of that relation, however P got into the field:
\* by a belongsTo descriptor, as a plain override value, or as the parent
\* injected by has-many / has-one.
BuiltScalarsFollowParent ==
    \A f \in Pipelines :
        ~frames[f].persist /\ frames[f].pc = "done" => ScalarsFollow(frames[f].entity)
\* In build mode the scalars follow the fields resolved from a belongsTo
\* descriptor; in persist mode, once the save has completed, they follow
\* every relation field.
DescriptorScalarsFollowParent ==
    \A f \in Pipelines :
        frames[f].pc = "done" =>
            /\ frames[f].persist => ScalarsFollow(frames[f].entity)
            /\ \A j \in 1..Len(frames[f].deferredBelongsTo) :
                    LET key == frames[f].deferredBelongsTo[j].key
                        P == Get(entities[frames[f].entity].props, key)
                        jcs == findRelationWithPropertyPath(model(frames[f].factory), key).joinColumns
                    IN  \A n \in 1..Len(jcs) :
                            jcs[n].propertyName # key =>
                                Get(entities[frames[f].entity].props, jcs[n].propertyName)
                                    = Get(entities[P.id].props, jcs[n].referencedColumn)
====
